---- MODULE Spec2Model ----
(***************************************************************************)
(* A model of django-two-phase-migrations (package bluegreen): the         *)
(* operation splitter and its strategies, the migration processor with its *)
(* dependency rewriting, the plan filter, and the patched migrate command. *)
(*                                                                         *)
(* The specifications share the variables:                                 *)
(*   SpecSplit  split_operation and process_migration over instruction     *)
(*              lists drawn by InitSplit;                                  *)
(*   SpecDeps   _fix_dependencies and process_migration over dependency    *)
(*              lists, loaded graphs and files on disk;                    *)
(*   SpecPlan   filter_plan over plans;                                    *)
(*   SpecSchema one instruction and its split applied to the same schema;  *)
(*   SpecSql    the SQL builder over names and where clauses;              *)
(*   SpecValid  the SQL validator over pairs of models;                    *)
(*   Spec       migrations are split, written to disk and applied by       *)
(*              sequences of migrate invocations;                          *)
(*   SpecCommand migrations are written by the bluegreen command and       *)
(*              applied by migrate invocations.                            *)
(***************************************************************************)
EXTENDS Integers, Sequences, FiniteSets, TLC

VARIABLES
    migration,   \* the source Migration handed to the processor
    registry,    \* django.apps: app label -> sequence of model classes
    loader,      \* BlueGreenMigrationProcessor._migration_loader (graph nodes) or NoLoader
    disk,        \* migration files on disk: set of Migration records
    inplan,      \* a MigrationPlan handed to MigrationPlanFilter.filter_plan
    split,       \* last call of OperationSplitter.split_operation
    fixed,       \* last call of BlueGreenMigrationProcessor._fix_dependencies
    filtered,    \* last call of MigrationPlanFilter.filter_plan
    result,      \* last call of BlueGreenMigrationProcessor.process_migration
    applied,     \* the applied-migration ledger (django_migrations)
    db,          \* schema objects present in the database
    out,         \* last invocation of the migrate command
    flat,        \* last call of split_operations or detect_impossible_operations
    effect,      \* an instruction and its split applied to one schema
    built,       \* last call of an SQLBuilder method
    validated,   \* last call of an SQLValidator method
    pair,        \* last call of PatchedMigrationWriter.split_migrations
    command      \* last invocation of the bluegreen command

vars == <<migration, registry, loader, disk, inplan, split, fixed, filtered,
          result, applied, db, out, flat, effect, built, validated, pair,
          command>>

(***************************************************************************)
(* Bounds of the model.                                                    *)
(***************************************************************************)
MaxOps == 2
MaxDeps == 2
MaxPlan == 3
MaxCols == 2
MaxFault == 2

(***************************************************************************)
(* Strings.                                                                *)
(***************************************************************************)
EndsWith(s, suffix) ==
    /\ Len(s) >= Len(suffix)
    /\ SubSeq(s, Len(s) - Len(suffix) + 1, Len(s)) = suffix

LowerTable ==
    [n \in {"Book", "Tome", "Ghost"} |->
        CASE n = "Book" -> "book"
          [] n = "Tome" -> "tome"
          [] n = "Ghost" -> "ghost"]

Lower(s) == IF s \in DOMAIN LowerTable THEN LowerTable[s] ELSE s

SeqToSet(s) == {s[i] : i \in 1..Len(s)}

\* the characters of identifiers in code point order
CodePoints ==
    <<"0", "1", "2", "3", "4", "5", "6", "7", "8", "9",
      "A", "B", "C", "D", "E", "F", "G", "H", "I", "J", "K", "L", "M",
      "N", "O", "P", "Q", "R", "S", "T", "U", "V", "W", "X", "Y", "Z", "_",
      "a", "b", "c", "d", "e", "f", "g", "h", "i", "j", "k", "l", "m",
      "n", "o", "p", "q", "r", "s", "t", "u", "v", "w", "x", "y", "z">>

Ord(c) == CHOOSE i \in 1..Len(CodePoints) : CodePoints[i] = c

\* a < b for Python strings: the first differing character decides, and a
\* proper prefix is smaller
StrLess(a, b) ==
    \E k \in 0..Len(a) :
        /\ k <= Len(b)
        /\ SubSeq(a, 1, k) = SubSeq(b, 1, k)
        /\ \/ k = Len(a) /\ k < Len(b)
           \/ /\ k < Len(a) /\ k < Len(b)
              /\ Ord(SubSeq(a, k + 1, k + 1)) < Ord(SubSeq(b, k + 1, k + 1))

\* sorted(list(S)) for a set of strings
RECURSIVE sorted(_)
sorted(S) ==
    IF S = {} THEN <<>>
    ELSE LET least == CHOOSE x \in S : \A y \in S \ {x} : StrLess(x, y)
         IN  <<least>> \o sorted(S \ {least})

SeqsUpTo(S, n) == UNION {[1..k -> S] : k \in 0..n}

(***************************************************************************)
(* constants.py                                                            *)
(***************************************************************************)
BLUE_SUFFIX == "_blue"
GREEN_SUFFIX == "_green"

IMPOSSIBLE_OPERATIONS ==
    {"AlterModelTable", "AlterUniqueTogether", "AlterIndexTogether",
     "AlterModelOptions", "AlterField", "AlterOrderWithRespectTo",
     "AlterModelManagers"}

(***************************************************************************)
(* Instructions (django.db.migrations.operations and fields.py).  An       *)
(* instruction is a record whose kind is its exact class; None is the      *)
(* null placeholder of the split tuples.                                   *)
(***************************************************************************)
None == [kind |-> "None"]

CreateModel(name, fields) == [kind |-> "CreateModel", name |-> name, fields |-> fields]
DeleteModel(name) == [kind |-> "DeleteModel", name |-> name]
RenameModel(old_name, new_name) ==
    [kind |-> "RenameModel", old_name |-> old_name, new_name |-> new_name]
AddField(model_name, name) ==
    [kind |-> "AddField", model_name |-> model_name, name |-> name]
RemoveField(model_name, name) ==
    [kind |-> "RemoveField", model_name |-> model_name, name |-> name]
RenameField(model_name, old_name, new_name) ==
    [kind |-> "RenameField", model_name |-> model_name,
     old_name |-> old_name, new_name |-> new_name]
AddIndex(model_name, name) ==
    [kind |-> "AddIndex", model_name |-> model_name, name |-> name]
RemoveIndex(model_name, name) ==
    [kind |-> "RemoveIndex", model_name |-> model_name, name |-> name]
RenameIndex(model_name, new_name, old_name) ==
    [kind |-> "RenameIndex", model_name |-> model_name,
     new_name |-> new_name, old_name |-> old_name]
AddConstraint(model_name, name) ==
    [kind |-> "AddConstraint", model_name |-> model_name, name |-> name]
RemoveConstraint(model_name, name) ==
    [kind |-> "RemoveConstraint", model_name |-> model_name, name |-> name]
RunSQL(sql) == [kind |-> "RunSQL", sql |-> sql]
RunPython(code) == [kind |-> "RunPython", code |-> code]
Alter(kind, name) == [kind |-> kind, name |-> name]

\* fields.py: the patched subclasses carry the old name
AddFieldPatched(model_name, name, field, old_name, preserve_default) ==
    [kind |-> "AddFieldPatched", model_name |-> model_name, name |-> name,
     field |-> field, old_name |-> old_name, preserve_default |-> preserve_default]
CreateModelPatched(name, fields, old_name) ==
    [kind |-> "CreateModelPatched", name |-> name,
     fields |-> [i \in 1..Len(fields) |-> <<fields[i].name, fields[i]>>],
     old_name |-> old_name]
AddIndexPatched(model_name, index, old_name) ==
    [kind |-> "AddIndexPatched", model_name |-> model_name,
     index |-> index, old_name |-> old_name]

\* the class a patched class derives from
Base(kind) ==
    CASE kind = "AddFieldPatched" -> "AddField"
      [] kind = "CreateModelPatched" -> "CreateModel"
      [] kind = "AddIndexPatched" -> "AddIndex"
      [] OTHER -> kind

\* isinstance(operation, classes)
IsInstance(operation, classes) ==
    operation.kind \in classes \/ Base(operation.kind) \in classes

(***************************************************************************)
(* utils.py: resolution against the app registry.  A lookup returns        *)
(* [ok, error, value].                                                     *)
(***************************************************************************)
Found(v) == [ok |-> TRUE, error |-> "", value |-> v]
Raised(e) == [ok |-> FALSE, error |-> e, value |-> None]

get_model_safely(reg, app_label, model_name) ==
    IF app_label \notin DOMAIN reg
    THEN Raised("ModelNotFoundError")
    ELSE LET models == reg[app_label]
             hits == {i \in 1..Len(models) : Lower(models[i].name) = Lower(model_name)}
         IN  IF hits = {} THEN Raised("ModelNotFoundError")
             ELSE Found(models[CHOOSE i \in hits : \A j \in hits : i <= j])

get_field_by_name(model, field_name) ==
    LET hits == {i \in 1..Len(model.fields) : model.fields[i].name = field_name}
    IN  IF hits = {} THEN Raised("FieldNotFoundError")
        ELSE Found(model.fields[CHOOSE i \in hits : \A j \in hits : i <= j])

\* faulty variant: a missing index is reported as a missing field
get_index_by_name_AsField(model, index_name) ==
    LET hits == {i \in 1..Len(model.indexes) : model.indexes[i].name = index_name}
    IN  IF hits = {} THEN Raised("FieldNotFoundError")
        ELSE Found(model.indexes[CHOOSE i \in hits : \A j \in hits : i <= j])

get_index_by_name(model, index_name) ==
    LET hits == {i \in 1..Len(model.indexes) : model.indexes[i].name = index_name}
    IN  IF hits = {} THEN Raised("IndexNotFoundError")
        ELSE Found(model.indexes[CHOOSE i \in hits : \A j \in hits : i <= j])

\* connection.ops.quote_name: a name already quoted is left alone
quote_identifier(identifier) ==
    IF Len(identifier) >= 1 /\ SubSeq(identifier, 1, 1) = "\""
       /\ EndsWith(identifier, "\"")
    THEN identifier
    ELSE "\"" \o identifier \o "\""

(***************************************************************************)
(* sql/builder.py                                                          *)
(***************************************************************************)
RECURSIVE JoinComma(_)
JoinComma(ss) ==
    IF ss = <<>> THEN ""
    ELSE IF Len(ss) = 1 THEN ss[1]
    ELSE ss[1] \o ", " \o JoinComma(Tail(ss))

build_column_list_from_model(model) ==
    [i \in 1..Len(model.fields) |-> model.fields[i].column]

build_insert_select(source_table, target_table, columns) ==
    LET source_quoted == quote_identifier(source_table)
        target_quoted == quote_identifier(target_table)
        columns_list == JoinComma([i \in 1..Len(columns) |-> quote_identifier(columns[i])])
    IN  RunSQL("INSERT INTO " \o source_quoted \o " (" \o columns_list \o ") "
               \o "SELECT " \o columns_list \o " FROM " \o target_quoted)

\* where_clause = "" stands for the default None
build_update_field_copy(table, new_column, old_column, where_clause) ==
    LET sql == "UPDATE " \o quote_identifier(table) \o " SET "
               \o quote_identifier(new_column) \o " = " \o quote_identifier(old_column)
    IN  RunSQL(IF where_clause # "" THEN sql \o " WHERE " \o where_clause ELSE sql)

(***************************************************************************)
(* sql/validators.py.  The validator is given two model classes.           *)
(***************************************************************************)
\* faulty variant: the common columns in the order of model_from's fields
get_common_columns_Unsorted(model_from, model_to) ==
    LET columns_to == {model_to.fields[i].column : i \in 1..Len(model_to.fields)}
    IN  SelectSeq([i \in 1..Len(model_from.fields) |-> model_from.fields[i].column],
                  LAMBDA c : c \in columns_to)

get_common_columns(model_from, model_to) ==
    LET columns_from == {model_from.fields[i].column : i \in 1..Len(model_from.fields)}
        columns_to == {model_to.fields[i].column : i \in 1..Len(model_to.fields)}
        common == columns_from \cap columns_to
    IN  sorted(common)

\* faulty variant: one common column is not enough
check_safe_for_insert_select_AtLeastTwo(source_model, target_model) ==
    IF Len(get_common_columns(source_model, target_model)) < 2
    THEN "SchemaValidationError"
    ELSE ""

\* "" when the copy is safe, else the exception raised
check_safe_for_insert_select(source_model, target_model) ==
    LET common == get_common_columns(source_model, target_model) IN
    IF common = <<>> THEN "SchemaValidationError"
    ELSE IF Len(common) < 1 THEN "SchemaValidationError"
    ELSE ""

(***************************************************************************)
(* operations/strategies.py.  A split returns [ok, error, blue, green]:    *)
(* the two tuples, or the exception that left the call.                    *)
(***************************************************************************)
Tuples(blue, green) == [ok |-> TRUE, error |-> "", blue |-> blue, green |-> green]
Raises(e) == [ok |-> FALSE, error |-> e, blue |-> <<>>, green |-> <<>>]

ModelStrategy_can_handle(operation) ==
    IsInstance(operation, {"CreateModel", "DeleteModel", "RenameModel"})

\* faulty variant: a delete-model is left in the blue phase
ModelStrategy_split_DeleteInBlue(operation, app_label, reg) ==
    IF IsInstance(operation, {"CreateModel", "DeleteModel"})
    THEN Tuples(<<operation>>, <<None>>)
    ELSE IF IsInstance(operation, {"RenameModel"}) THEN
        LET m == get_model_safely(reg, app_label, operation.new_name) IN
        IF ~m.ok THEN Raises(m.error)
        ELSE Tuples(<<CreateModelPatched(m.value.name, m.value.fields, operation.old_name),
                      build_insert_select(m.value.app_label \o "_" \o Lower(operation.old_name),
                                          m.value.db_table,
                                          build_column_list_from_model(m.value))>>,
                    <<DeleteModel(operation.old_name)>>)
    ELSE Tuples(<<operation>>, <<None>>)

ModelStrategy_split(operation, app_label, reg) ==
    IF IsInstance(operation, {"CreateModel"}) THEN Tuples(<<operation>>, <<None>>)
    ELSE IF IsInstance(operation, {"DeleteModel"}) THEN Tuples(<<None>>, <<operation>>)
    ELSE IF IsInstance(operation, {"RenameModel"}) THEN
        LET m == get_model_safely(reg, app_label, operation.new_name) IN
        IF ~m.ok THEN Raises(m.error)
        ELSE LET model == m.value
                 add_operation ==
                     CreateModelPatched(model.name, model.fields, operation.old_name)
                 drop_operation == DeleteModel(operation.old_name)
                 old_table == model.app_label \o "_" \o Lower(operation.old_name)
                 columns == build_column_list_from_model(model)
                 run_sql == build_insert_select(old_table, model.db_table, columns)
             IN  Tuples(<<add_operation, run_sql>>, <<drop_operation>>)
    ELSE Tuples(<<operation>>, <<None>>)

FieldStrategy_can_handle(operation) ==
    IsInstance(operation, {"AddField", "RemoveField", "RenameField"})

\* faulty variant: the column copy is placed before the add of the new field
FieldStrategy_split_SqlFirst(operation, app_label, reg) ==
    IF IsInstance(operation, {"AddField"}) THEN Tuples(<<operation>>, <<None>>)
    ELSE IF IsInstance(operation, {"RemoveField"}) THEN Tuples(<<None>>, <<operation>>)
    ELSE IF IsInstance(operation, {"RenameField"}) THEN
        LET m == get_model_safely(reg, app_label, operation.model_name) IN
        IF ~m.ok THEN Raises(m.error)
        ELSE LET f == get_field_by_name(m.value, operation.new_name) IN
             IF ~f.ok THEN Raises(f.error)
             ELSE Tuples(<<build_update_field_copy(m.value.db_table, operation.new_name,
                                                   operation.old_name, ""),
                           AddFieldPatched(Lower(m.value.name), operation.new_name,
                                           f.value, operation.old_name, TRUE)>>,
                         <<RemoveField(Lower(m.value.name), operation.old_name)>>)
    ELSE Tuples(<<operation>>, <<None>>)

\* faulty variant: an add that carries an old name is taken for a rename
\* still to be split
FieldStrategy_split_PatchedAgain(operation, app_label, reg) ==
    IF operation.kind = "AddFieldPatched"
    THEN Tuples(<<operation>>, <<RemoveField(operation.model_name, operation.old_name)>>)
    ELSE IF IsInstance(operation, {"AddField"}) THEN Tuples(<<operation>>, <<None>>)
    ELSE IF IsInstance(operation, {"RemoveField"}) THEN Tuples(<<None>>, <<operation>>)
    ELSE IF IsInstance(operation, {"RenameField"}) THEN
        LET m == get_model_safely(reg, app_label, operation.model_name) IN
        IF ~m.ok THEN Raises(m.error)
        ELSE LET f == get_field_by_name(m.value, operation.new_name) IN
             IF ~f.ok THEN Raises(f.error)
             ELSE Tuples(<<AddFieldPatched(Lower(m.value.name), operation.new_name,
                                           f.value, operation.old_name, TRUE),
                           build_update_field_copy(m.value.db_table, operation.new_name,
                                                   operation.old_name, "")>>,
                         <<RemoveField(Lower(m.value.name), operation.old_name)>>)
    ELSE Tuples(<<operation>>, <<None>>)

FieldStrategy_split(operation, app_label, reg) ==
    IF IsInstance(operation, {"AddField"}) THEN Tuples(<<operation>>, <<None>>)
    ELSE IF IsInstance(operation, {"RemoveField"}) THEN Tuples(<<None>>, <<operation>>)
    ELSE IF IsInstance(operation, {"RenameField"}) THEN
        LET m == get_model_safely(reg, app_label, operation.model_name) IN
        IF ~m.ok THEN Raises(m.error)
        ELSE LET model == m.value
                 f == get_field_by_name(model, operation.new_name)
             IN  IF ~f.ok THEN Raises(f.error)
                 ELSE LET add_operation ==
                              AddFieldPatched(Lower(model.name), operation.new_name,
                                              f.value, operation.old_name, TRUE)
                          drop_operation ==
                              RemoveField(Lower(model.name), operation.old_name)
                          run_sql ==
                              build_update_field_copy(model.db_table,
                                                      operation.new_name,
                                                      operation.old_name, "")
                      IN  Tuples(<<add_operation, run_sql>>, <<drop_operation>>)
    ELSE Tuples(<<operation>>, <<None>>)

IndexStrategy_can_handle(operation) ==
    IsInstance(operation, {"AddIndex", "RemoveIndex", "RenameIndex"})

\* faulty variant: a remove-index is returned in the blue tuple
IndexStrategy_split_RemoveInBlue(operation, app_label, reg) ==
    IF IsInstance(operation, {"AddIndex", "RemoveIndex"})
    THEN Tuples(<<operation>>, <<None>>)
    ELSE IF IsInstance(operation, {"RenameIndex"}) THEN
        LET m == get_model_safely(reg, app_label, operation.model_name) IN
        IF ~m.ok THEN Raises(m.error)
        ELSE LET x == get_index_by_name(m.value, operation.new_name) IN
             IF ~x.ok THEN Raises(x.error)
             ELSE Tuples(<<AddIndexPatched(Lower(m.value.name), x.value, operation.old_name)>>,
                         <<RemoveIndex(Lower(m.value.name), operation.old_name)>>)
    ELSE Tuples(<<operation>>, <<None>>)

IndexStrategy_split(operation, app_label, reg) ==
    IF IsInstance(operation, {"AddIndex"}) THEN Tuples(<<operation>>, <<None>>)
    ELSE IF IsInstance(operation, {"RemoveIndex"}) THEN Tuples(<<None>>, <<operation>>)
    ELSE IF IsInstance(operation, {"RenameIndex"}) THEN
        LET m == get_model_safely(reg, app_label, operation.model_name) IN
        IF ~m.ok THEN Raises(m.error)
        ELSE LET model == m.value
                 x == get_index_by_name(model, operation.new_name)
             IN  IF ~x.ok THEN Raises(x.error)
                 ELSE LET add_operation ==
                              AddIndexPatched(Lower(model.name), x.value,
                                              operation.old_name)
                          drop_operation ==
                              RemoveIndex(Lower(model.name), operation.old_name)
                      IN  Tuples(<<add_operation>>, <<drop_operation>>)
    ELSE Tuples(<<operation>>, <<None>>)

ConstraintStrategy_can_handle(operation) ==
    IsInstance(operation, {"AddConstraint", "RemoveConstraint"})

\* faulty variant: the two branches are exchanged
ConstraintStrategy_split_Swapped(operation, app_label, reg) ==
    IF IsInstance(operation, {"AddConstraint"}) THEN Tuples(<<None>>, <<operation>>)
    ELSE IF IsInstance(operation, {"RemoveConstraint"}) THEN Tuples(<<operation>>, <<None>>)
    ELSE Tuples(<<operation>>, <<None>>)

ConstraintStrategy_split(operation, app_label, reg) ==
    IF IsInstance(operation, {"AddConstraint"}) THEN Tuples(<<operation>>, <<None>>)
    ELSE IF IsInstance(operation, {"RemoveConstraint"}) THEN Tuples(<<None>>, <<operation>>)
    ELSE Tuples(<<operation>>, <<None>>)

(***************************************************************************)
(* operations/splitter.py                                                  *)
(***************************************************************************)
\* faulty variant: an impossible instruction is refused by the splitter
split_operation_ImpossibleRaises(operation, app_label, reg) ==
    IF operation.kind \in IMPOSSIBLE_OPERATIONS THEN Raises("ImpossibleOperationError")
    ELSE IF ModelStrategy_can_handle(operation)
         THEN ModelStrategy_split(operation, app_label, reg)
    ELSE IF FieldStrategy_can_handle(operation)
         THEN FieldStrategy_split(operation, app_label, reg)
    ELSE IF IndexStrategy_can_handle(operation)
         THEN IndexStrategy_split(operation, app_label, reg)
    ELSE IF ConstraintStrategy_can_handle(operation)
         THEN ConstraintStrategy_split(operation, app_label, reg)
    ELSE Tuples(<<operation>>, <<None>>)

\* faulty variant: an instruction no strategy handles is deferred to green
split_operation_UnknownInGreen(operation, app_label, reg) ==
    IF operation.kind \in IMPOSSIBLE_OPERATIONS THEN Tuples(<<operation>>, <<None>>)
    ELSE IF ModelStrategy_can_handle(operation)
         THEN ModelStrategy_split(operation, app_label, reg)
    ELSE IF FieldStrategy_can_handle(operation)
         THEN FieldStrategy_split(operation, app_label, reg)
    ELSE IF IndexStrategy_can_handle(operation)
         THEN IndexStrategy_split(operation, app_label, reg)
    ELSE IF ConstraintStrategy_can_handle(operation)
         THEN ConstraintStrategy_split(operation, app_label, reg)
    ELSE Tuples(<<None>>, <<operation>>)

split_operation(operation, app_label, reg) ==
    IF operation.kind \in IMPOSSIBLE_OPERATIONS THEN Tuples(<<operation>>, <<None>>)
    ELSE IF ModelStrategy_can_handle(operation)
         THEN ModelStrategy_split(operation, app_label, reg)
    ELSE IF FieldStrategy_can_handle(operation)
         THEN FieldStrategy_split(operation, app_label, reg)
    ELSE IF IndexStrategy_can_handle(operation)
         THEN IndexStrategy_split(operation, app_label, reg)
    ELSE IF ConstraintStrategy_can_handle(operation)
         THEN ConstraintStrategy_split(operation, app_label, reg)
    ELSE Tuples(<<operation>>, <<None>>)

RECURSIVE SplitLoop(_, _, _, _, _)
\* the loop of split_operations over the remaining operations
SplitLoop(operations, app_label, reg, blue_ops, green_ops) ==
    IF operations = <<>> THEN Tuples(blue_ops, green_ops)
    ELSE LET r == split_operation(Head(operations), app_label, reg) IN
         IF ~r.ok THEN Raises(r.error)
         ELSE SplitLoop(Tail(operations), app_label, reg,
                        blue_ops \o SelectSeq(r.blue, LAMBDA op : op # None),
                        green_ops \o SelectSeq(r.green, LAMBDA op : op # None))

RECURSIVE SplitLoop_Prepend(_, _, _, _, _)
\* faulty variant: each instruction's results are put before the earlier ones
SplitLoop_Prepend(operations, app_label, reg, blue_ops, green_ops) ==
    IF operations = <<>> THEN Tuples(blue_ops, green_ops)
    ELSE LET r == split_operation(Head(operations), app_label, reg) IN
         IF ~r.ok THEN Raises(r.error)
         ELSE SplitLoop_Prepend(Tail(operations), app_label, reg,
                                SelectSeq(r.blue, LAMBDA op : op # None) \o blue_ops,
                                SelectSeq(r.green, LAMBDA op : op # None) \o green_ops)

split_operations_Prepend(operations, app_label, reg) ==
    SplitLoop_Prepend(operations, app_label, reg, <<>>, <<>>)

split_operations(operations, app_label, reg) ==
    SplitLoop(operations, app_label, reg, <<>>, <<>>)

detect_impossible_operations(operations) ==
    SelectSeq(operations, LAMBDA op : op.kind \in IMPOSSIBLE_OPERATIONS)

(***************************************************************************)
(* processors/migration_processor.py                                       *)
(***************************************************************************)
Migration(name, app_label, dependencies, operations, flags) ==
    [name |-> name, app_label |-> app_label, dependencies |-> dependencies,
     operations |-> operations, replaces |-> flags.replaces,
     run_before |-> flags.run_before, initial |-> flags.initial]

Key(m) == <<m.app_label, m.name>>

NoLoader == [loaded |-> FALSE, nodes |-> {}]

\* MigrationLoader(connection): the graph of the migration files of the installed apps
LoadGraph(files, reg) ==
    [loaded |-> TRUE, nodes |-> {Key(m) : m \in {f \in files : f.app_label \in DOMAIN reg}}]

_get_migration_loader(ldr, files, reg) ==
    IF ldr.loaded THEN ldr ELSE LoadGraph(files, reg)

\* faulty variant: the files on disk are not consulted
_migration_file_exists_Never(app_label, migration_name, files, reg) == FALSE

_migration_file_exists(app_label, migration_name, files, reg) ==
    IF app_label \notin DOMAIN reg THEN FALSE   \* LookupError
    ELSE <<app_label, migration_name>> \in {Key(f) : f \in files}

\* faulty variant: a dependency on a blue migration is moved to its green
\* counterpart when the target is green
FixOne_Recolour(dep, target_suffix, nodes, files, reg) ==
    IF Len(dep) = 2 THEN
        LET app_label == dep[1]
            migration_name == dep[2]
            target_name == migration_name \o target_suffix
            target_key == <<app_label, target_name>>
            stem == SubSeq(migration_name, 1, Len(migration_name) - Len(BLUE_SUFFIX))
            green_key == <<app_label, stem \o GREEN_SUFFIX>>
        IN  IF EndsWith(migration_name, BLUE_SUFFIX) /\ target_suffix = GREEN_SUFFIX
               /\ _migration_file_exists(app_label, green_key[2], files, reg)
            THEN green_key
            ELSE IF EndsWith(migration_name, BLUE_SUFFIX) \/ EndsWith(migration_name, GREEN_SUFFIX)
            THEN dep
            ELSE IF target_key \in nodes
                    \/ _migration_file_exists(app_label, target_name, files, reg)
                 THEN target_key
                 ELSE dep
    ELSE dep

FixOne(dep, target_suffix, nodes, files, reg) ==
    IF Len(dep) = 2 THEN
        LET app_label == dep[1]
            migration_name == dep[2]
            target_name == migration_name \o target_suffix
            target_key == <<app_label, target_name>>
        IN  IF EndsWith(migration_name, BLUE_SUFFIX) \/ EndsWith(migration_name, GREEN_SUFFIX)
            THEN dep
            ELSE IF target_key \in nodes
                    \/ _migration_file_exists(app_label, target_name, files, reg)
                 THEN target_key
                 ELSE dep
    ELSE dep

_fix_dependencies(dependencies, is_green, ldr, files, reg) ==
    LET nodes == _get_migration_loader(ldr, files, reg).nodes
        target_suffix == IF is_green THEN GREEN_SUFFIX ELSE BLUE_SUFFIX
    IN  [i \in 1..Len(dependencies) |->
            FixOne(dependencies[i], target_suffix, nodes, files, reg)]

\* faulty variant: the new migration keeps the defaults of Migration()
Flags_Defaults(m) == [replaces |-> <<>>, run_before |-> <<>>, initial |-> FALSE]

Flags(m) == [replaces |-> m.replaces, run_before |-> m.run_before, initial |-> m.initial]

\* the outcome of process_migration: the two migrations, or the exception
Returned(blue, green) ==
    [status |-> "returned", error |-> "", impossible |-> <<>>,
     blue |-> blue, green |-> green]
Failed(e, ops) ==
    [status |-> "raised", error |-> e, impossible |-> ops,
     blue |-> None, green |-> None]

\* faulty variant: no check for impossible instructions before the split
process_migration_NoCheck(m, ldr, files, reg) ==
    LET s == split_operations(m.operations, m.app_label, reg) IN
    IF ~s.ok THEN Failed(s.error, <<>>)
    ELSE LET blue == Migration(m.name \o BLUE_SUFFIX, m.app_label,
                               _fix_dependencies(m.dependencies, FALSE, ldr, files, reg),
                               s.blue, Flags(m))
             green == Migration(m.name \o GREEN_SUFFIX, m.app_label,
                                << <<blue.app_label, blue.name>> >>, s.green, Flags(m))
         IN  Returned(blue, green)

\* faulty variant: green also takes the source's dependencies, rewritten for green
process_migration_GreenDeps(m, ldr, files, reg) ==
    IF \E i \in 1..Len(m.operations) : m.operations[i].kind \in IMPOSSIBLE_OPERATIONS
    THEN Failed("ImpossibleOperationError", detect_impossible_operations(m.operations))
    ELSE LET s == split_operations(m.operations, m.app_label, reg) IN
         IF ~s.ok THEN Failed(s.error, <<>>)
         ELSE LET blue == Migration(m.name \o BLUE_SUFFIX, m.app_label,
                                    _fix_dependencies(m.dependencies, FALSE, ldr, files, reg),
                                    s.blue, Flags(m))
                  green == Migration(m.name \o GREEN_SUFFIX, m.app_label,
                                     << <<blue.app_label, blue.name>> >>
                                     \o _fix_dependencies(m.dependencies, TRUE, ldr, files, reg),
                                     s.green, Flags(m))
              IN  Returned(blue, green)

\* faulty variant: when the split fails, the blue migration built so far is
\* handed back with the exception
process_migration_Partial(m, ldr, files, reg) ==
    IF \E i \in 1..Len(m.operations) : m.operations[i].kind \in IMPOSSIBLE_OPERATIONS
    THEN Failed("ImpossibleOperationError", detect_impossible_operations(m.operations))
    ELSE LET s == split_operations(m.operations, m.app_label, reg) IN
         IF ~s.ok
         THEN [status |-> "raised", error |-> s.error, impossible |-> <<>>,
               blue |-> Migration(m.name \o BLUE_SUFFIX, m.app_label, m.dependencies,
                                  <<>>, Flags(m)),
               green |-> None]
         ELSE LET blue == Migration(m.name \o BLUE_SUFFIX, m.app_label,
                                    _fix_dependencies(m.dependencies, FALSE, ldr, files, reg),
                                    s.blue, Flags(m))
                  green == Migration(m.name \o GREEN_SUFFIX, m.app_label,
                                     << <<blue.app_label, blue.name>> >>, s.green, Flags(m))
              IN  Returned(blue, green)

process_migration(m, ldr, files, reg) ==
    LET impossible == \E i \in 1..Len(m.operations) :
                          m.operations[i].kind \in IMPOSSIBLE_OPERATIONS
    IN  IF impossible
        THEN Failed("ImpossibleOperationError", detect_impossible_operations(m.operations))
        ELSE LET s == split_operations(m.operations, m.app_label, reg) IN
             IF ~s.ok THEN Failed(s.error, <<>>)
             ELSE LET blue == Migration(m.name \o BLUE_SUFFIX, m.app_label,
                                        _fix_dependencies(m.dependencies, FALSE,
                                                          ldr, files, reg),
                                        s.blue, Flags(m))
                      green == Migration(m.name \o GREEN_SUFFIX, m.app_label,
                                         << <<blue.app_label, blue.name>> >>,
                                         s.green, Flags(m))
                  IN  Returned(blue, green)

\* the processor's loader after process_migration: created on the first
\* call that reaches _fix_dependencies
LoaderAfter(m, ldr, files, reg) ==
    IF process_migration(m, ldr, files, reg).status = "returned"
    THEN _get_migration_loader(ldr, files, reg)
    ELSE ldr

(***************************************************************************)
(* management/commands/bluegreen.py: PatchedMigrationWriter                *)
(***************************************************************************)
blue_green(operation, app_label, reg) == split_operation(operation, app_label, reg)

\* chain.from_iterable
RECURSIVE Chain(_)
Chain(lst) == IF lst = <<>> THEN <<>> ELSE Head(lst) \o Chain(Tail(lst))

create_blue(m, operations_lst) ==
    [name |-> m.name \o BLUE_SUFFIX, app_label |-> m.app_label,
     dependencies |-> m.dependencies,
     operations |-> SelectSeq(Chain(operations_lst), LAMBDA op : op # None),
     replaces |-> m.replaces, run_before |-> m.run_before, initial |-> m.initial]

\* faulty variant: green takes the source's dependencies as well
create_green_SourceDeps(m, migration_blue, lst) ==
    [name |-> m.name \o GREEN_SUFFIX, app_label |-> m.app_label,
     dependencies |-> << <<migration_blue.app_label, migration_blue.name>> >>
                      \o m.dependencies,
     operations |-> SelectSeq(Chain(lst), LAMBDA op : op # None),
     replaces |-> m.replaces, run_before |-> m.run_before, initial |-> m.initial]

create_green(m, migration_blue, lst) ==
    [name |-> m.name \o GREEN_SUFFIX, app_label |-> m.app_label,
     dependencies |-> << <<migration_blue.app_label, migration_blue.name>> >>,
     operations |-> SelectSeq(Chain(lst), LAMBDA op : op # None),
     replaces |-> m.replaces, run_before |-> m.run_before, initial |-> m.initial]

\* the loop of split_migrations: one tuple per instruction in each list,
\* or the exception of the first instruction that raises
Collected(r) ==
    LET raised == {i \in 1..Len(r) : ~r[i].ok} IN
    IF raised # {}
    THEN Raises(r[CHOOSE i \in raised : \A j \in raised : i <= j].error)
    ELSE Tuples([i \in 1..Len(r) |-> r[i].blue], [i \in 1..Len(r) |-> r[i].green])

WriterLoop(operations, app_label, reg) ==
    Collected([i \in 1..Len(operations) |-> blue_green(operations[i], app_label, reg)])

\* create_blue and create_green over the lists the loop collected
WriterPair(m, l) ==
    IF ~l.ok THEN Failed(l.error, <<>>)
    ELSE Returned(create_blue(m, l.blue),
                  create_green(m, create_blue(m, l.blue), l.green))

\* the class names of the impossible instructions
ClassNames(operations) == [i \in 1..Len(operations) |-> operations[i].kind]

\* the error carries the class names of the impossible instructions
split_migrations(m, impossible, reg) ==
    IF impossible
    THEN Failed("ImpossibleOperationError",
                ClassNames(detect_impossible_operations(m.operations)))
    ELSE WriterPair(m, WriterLoop(m.operations, m.app_label, reg))

\* Command.write_migration_files over the migrations of changes in
\* iteration order: the files written before the loop ends or an
\* exception leaves it
WrittenFiles(r, dry_run) ==
    LET raised == {i \in 1..Len(r) : r[i].status = "raised"}
        first == IF raised = {} THEN Len(r) + 1
                 ELSE CHOOSE i \in raised : \A j \in raised : i <= j
    IN  [status |-> IF raised = {} THEN "ok" ELSE r[first].error,
         written |-> IF dry_run THEN <<>>
                     ELSE Chain([i \in 1..(first - 1) |-> <<r[i].blue, r[i].green>>])]

write_migration_files(changes, dry_run, reg) ==
    LET impossible(m) == \E i \in 1..Len(m.operations) :
                             m.operations[i].kind \in IMPOSSIBLE_OPERATIONS
    IN  WrittenFiles([i \in 1..Len(changes) |->
                         split_migrations(changes[i], impossible(changes[i]), reg)],
                     dry_run)

(***************************************************************************)
(* processors/plan_filter.py.  A plan item is <<migration, backwards>>.    *)
(***************************************************************************)
\* faulty variant: each mode drops its own colour
filter_plan_Swapped(plan, blue_mode, green_mode) ==
    IF blue_mode
    THEN SelectSeq(plan, LAMBDA item : ~EndsWith(item[1].name, "_blue"))
    ELSE IF green_mode
    THEN SelectSeq(plan, LAMBDA item : ~EndsWith(item[1].name, "_green"))
    ELSE plan

filter_plan(plan, blue_mode, green_mode) ==
    IF blue_mode
    THEN SelectSeq(plan, LAMBDA item : ~EndsWith(item[1].name, "_green"))
    ELSE IF green_mode
    THEN SelectSeq(plan, LAMBDA item : ~EndsWith(item[1].name, "_blue"))
    ELSE plan

(***************************************************************************)
(* management/commands/migrate.py.  The command is invoked as              *)
(* migrate [--blue] [--green], without app_label or migration_name: the    *)
(* targets are the leaf nodes of the graph.  MigrationExecutor and its     *)
(* loader are the host framework's, modelled where the command calls them. *)
(***************************************************************************)
\* Python's order on the (app_label, name) keys that occur
KeyOrder ==
    << <<"blog", "0001_notes_blue">>, <<"blog", "0001_notes_green">>,
       <<"shop", "0001_initial">>, <<"shop", "0002_rename">>,
       <<"shop", "0002_rename_blue">>, <<"shop", "0002_rename_green">>,
       <<"shop", "0003_isbn">>, <<"shop", "0003_isbn_blue">>,
       <<"shop", "0003_isbn_green">> >>

Rank(key) == CHOOSE i \in 1..Len(KeyOrder) : KeyOrder[i] = key

RECURSIVE Sorted(_)
\* sorted(keys)
Sorted(keys) ==
    IF keys = {} THEN <<>>
    ELSE LET least == CHOOSE k \in keys : \A o \in keys : Rank(k) <= Rank(o)
         IN  <<least>> \o Sorted(keys \ {least})

Reverse(s) == [i \in 1..Len(s) |-> s[Len(s) + 1 - i]]

\* executor.loader.graph, built from the files of the installed apps
GraphNodes(files, reg) == {Key(m) : m \in {f \in files : f.app_label \in DOMAIN reg}}
MigrationAt(files, key) == CHOOSE m \in files : Key(m) = key
Parents(files, key) ==
    {d \in SeqToSet(MigrationAt(files, key).dependencies) : Len(d) = 2}
Children(files, reg, key) ==
    {k \in GraphNodes(files, reg) : key \in Parents(files, k)}

\* a dependency names no node: building the graph raises NodeNotFoundError
NodeNotFound(files, reg) ==
    \E k \in GraphNodes(files, reg) :
        \E d \in Parents(files, k) : d \notin GraphNodes(files, reg)

\* loader.check_consistent_history: an applied migration with an unapplied parent
InconsistentHistory(files, reg, ledger) ==
    \E k \in ledger \cap GraphNodes(files, reg) :
        \E d \in Parents(files, k) : d \notin ledger

leaf_nodes(files, reg) ==
    Sorted({k \in GraphNodes(files, reg) :
               \A c \in Children(files, reg, k) : c[1] # k[1]})

\* loader.detect_conflicts: an app with more than one leaf
detect_conflicts(files, reg) ==
    LET leaves == SeqToSet(leaf_nodes(files, reg))
    IN  {app \in {k[1] : k \in leaves} :
            Cardinality({k \in leaves : k[1] = app}) > 1}

RECURSIVE Dfs(_, _, _)
RECURSIVE DfsAll(_, _, _)
\* graph.forwards_plan: the parents depth-first from the stack, then the node
Dfs(files, node, visited) ==
    IF node \in SeqToSet(visited) THEN visited
    ELSE Append(DfsAll(files, Reverse(Sorted(Parents(files, node))), visited), node)
DfsAll(files, nodes, visited) ==
    IF nodes = <<>> THEN visited
    ELSE DfsAll(files, Tail(nodes), Dfs(files, Head(nodes), visited))

forwards_plan(files, target) == Dfs(files, target, <<>>)

RECURSIVE PlanLoop(_, _, _, _, _)
\* executor.migration_plan over leaf targets: a leaf that is applied has no
\* child in its app to roll back; otherwise its unapplied ancestors are planned
PlanLoop(files, reg, targets, plan, ledger) ==
    IF targets = <<>> THEN plan
    ELSE IF Head(targets) \in ledger
         THEN PlanLoop(files, reg, Tail(targets), plan, ledger)
    ELSE LET new == SelectSeq(forwards_plan(files, Head(targets)),
                              LAMBDA k : k \notin ledger /\ k \notin SeqToSet(plan))
         IN  PlanLoop(files, reg, Tail(targets), plan \o new, ledger)

\* plan items are <<migration, backwards>>
migration_plan(files, reg, targets, ledger) ==
    LET keys == PlanLoop(files, reg, targets, <<>>, ledger)
    IN  [i \in 1..Len(keys) |-> <<MigrationAt(files, keys[i]), FALSE>>]

\* handle: the filtering of the plan by deployment mode
HandleFilter(plan, options) ==
    IF options.blue
    THEN SelectSeq(plan, LAMBDA item : ~EndsWith(item[1].name, "_green"))
    ELSE IF options.green
    THEN SelectSeq(plan, LAMBDA item : ~EndsWith(item[1].name, "_blue"))
    ELSE plan

TableOf(app_label, model_name) == app_label \o "_" \o Lower(model_name)

\* database_forwards of one instruction on the schema
ApplyOperation(schema, app_label, op) ==
    CASE op.kind = "CreateModel" ->
            schema \cup {<<"column", TableOf(app_label, op.name), op.fields[i]>> :
                            i \in 1..Len(op.fields)}
      [] op.kind = "CreateModelPatched" ->
            schema \cup {<<"column", TableOf(app_label, op.name), op.fields[i][1]>> :
                            i \in 1..Len(op.fields)}
      [] op.kind = "DeleteModel" ->
            {o \in schema : o[2] # TableOf(app_label, op.name)}
      [] op.kind \in {"AddField", "AddFieldPatched"} ->
            schema \cup {<<"column", TableOf(app_label, op.model_name), op.name>>}
      [] op.kind = "RemoveField" ->
            schema \ {<<"column", TableOf(app_label, op.model_name), op.name>>}
      [] op.kind = "AddIndex" ->
            schema \cup {<<"index", TableOf(app_label, op.model_name), op.name>>}
      [] op.kind = "AddIndexPatched" ->
            schema \cup {<<"index", TableOf(app_label, op.model_name), op.index.name>>}
      [] op.kind = "RemoveIndex" ->
            schema \ {<<"index", TableOf(app_label, op.model_name), op.name>>}
      [] op.kind = "AddConstraint" ->
            schema \cup {<<"constraint", TableOf(app_label, op.model_name), op.name>>}
      [] op.kind = "RemoveConstraint" ->
            schema \ {<<"constraint", TableOf(app_label, op.model_name), op.name>>}
      [] op.kind = "RenameModel" ->
            {IF o[2] = TableOf(app_label, op.old_name)
             THEN <<o[1], TableOf(app_label, op.new_name), o[3]>> ELSE o : o \in schema}
      [] op.kind = "RenameField" ->
            {IF o = <<"column", TableOf(app_label, op.model_name), op.old_name>>
             THEN <<"column", TableOf(app_label, op.model_name), op.new_name>>
             ELSE o : o \in schema}
      [] op.kind = "RenameIndex" ->
            {IF o = <<"index", TableOf(app_label, op.model_name), op.old_name>>
             THEN <<"index", TableOf(app_label, op.model_name), op.new_name>>
             ELSE o : o \in schema}
      [] OTHER -> schema

RECURSIVE ApplyOperations(_, _, _)
ApplyOperations(schema, app_label, operations) ==
    IF operations = <<>> THEN schema
    ELSE ApplyOperations(ApplyOperation(schema, app_label, Head(operations)),
                         app_label, Tail(operations))

RECURSIVE MigrateForwards(_, _, _)
\* executor.migrate: the migrations of full_plan that are in the plan are
\* applied in full_plan's order; run is [applied, db, log]
MigrateForwards(full_plan, to_run, run) ==
    IF full_plan = <<>> THEN run
    ELSE LET m == Head(full_plan)[1] IN
         IF m \notin to_run THEN MigrateForwards(Tail(full_plan), to_run, run)
         ELSE MigrateForwards(Tail(full_plan), to_run,
                  [applied |-> run.applied \cup {Key(m)},
                   db |-> ApplyOperations(run.db, m.app_label, m.operations),
                   log |-> Append(run.log, [key |-> Key(m), before |-> run.applied])])

\* handle: one UPDATE per AddFieldPatched of the plan, after executor.migrate
CopyStatements(plan) ==
    LET OfMigration(m) ==
            LET ops == SelectSeq(m.operations, LAMBDA op : op.kind = "AddFieldPatched")
            IN  [i \in 1..Len(ops) |->
                    [table |-> m.app_label \o "_" \o ops[i].model_name,
                     new |-> ops[i].name, old |-> ops[i].old_name,
                     sql |-> "UPDATE " \o quote_identifier(m.app_label \o "_" \o ops[i].model_name)
                             \o " SET " \o quote_identifier(ops[i].name)
                             \o " = " \o quote_identifier(ops[i].old_name)]]
        F[i \in 0..Len(plan)] ==
            IF i = 0 THEN <<>> ELSE F[i - 1] \o OfMigration(plan[i][1])
    IN  F[Len(plan)]

\* the statement runs when the table has both columns
CopyRuns(schema, c) ==
    <<"column", c.table, c.new>> \in schema /\ <<"column", c.table, c.old>> \in schema

\* the loop over the statements: those executed before the first one the
\* database refuses, because a column is missing or, at position fault,
\* for a reason of its own (0: none)
ExecuteCopies(schema, copies, fault) ==
    LET refused == {i \in 1..Len(copies) : ~CopyRuns(schema, copies[i]) \/ i = fault}
        first == IF refused = {} THEN Len(copies) + 1
                 ELSE CHOOSE i \in refused : \A j \in refused : i <= j
        sent == IF refused = {} THEN Len(copies) ELSE first
    IN  [executed |-> SubSeq(copies, 1, first - 1), failed |-> refused # {},
         issued |-> [i \in 1..sent |->
                        [sql |-> copies[i].sql,
                         old_exists |-> <<"column", copies[i].table, copies[i].old>>
                                           \in schema,
                         new_exists |-> <<"column", copies[i].table, copies[i].new>>
                                           \in schema]]]

\* faulty variant: each statement is committed as it is executed
CopyTransaction_Autocommit(executed, failed) == executed

\* transaction.atomic around the loop: what is left of the executed
\* statements when the block is left
CopyTransaction(executed, failed) == IF failed THEN <<>> ELSE executed

\* faulty variant: the two flags are not checked against each other
BothModes_Unchecked(options) == FALSE

\* --blue and --green given together
BothModes(options) == options.blue /\ options.green

\* executed: the copy statements the loop executed; copies: those whose
\* effect is in the database when the command returns; issued: every
\* statement handed to the cursor, with the columns the table had then
Outcome(options, status, planned, plan, log, executed, copies, issued) ==
    [called |-> TRUE, options |-> options, status |-> status, planned |-> planned,
     plan |-> plan, log |-> log, executed |-> executed, copies |-> copies,
     issued |-> issued]

Handle(options, fault) ==
    IF BothModes(options)
    THEN /\ out' = Outcome(options, "CommandError: both modes", FALSE, <<>>, <<>>, <<>>, <<>>, <<>>)
         /\ UNCHANGED <<applied, db>>
    ELSE IF NodeNotFound(disk, registry)
    THEN /\ out' = Outcome(options, "NodeNotFoundError", FALSE, <<>>, <<>>, <<>>, <<>>, <<>>)
         /\ UNCHANGED <<applied, db>>
    ELSE IF InconsistentHistory(disk, registry, applied)
    THEN /\ out' = Outcome(options, "InconsistentMigrationHistory", FALSE, <<>>, <<>>, <<>>, <<>>, <<>>)
         /\ UNCHANGED <<applied, db>>
    ELSE IF detect_conflicts(disk, registry) # {}
    THEN /\ out' = Outcome(options, "CommandError: conflicts", FALSE, <<>>, <<>>, <<>>, <<>>, <<>>)
         /\ UNCHANGED <<applied, db>>
    ELSE LET targets == leaf_nodes(disk, registry)
             plan == HandleFilter(migration_plan(disk, registry, targets, applied), options)
             full_plan == migration_plan(disk, registry, targets, {})
             run == MigrateForwards(full_plan, {plan[i][1] : i \in 1..Len(plan)},
                                    [applied |-> applied, db |-> db, log |-> <<>>])
             copies == CopyStatements(plan)
             loop == ExecuteCopies(run.db, copies, fault)
             Sql(cs) == [i \in 1..Len(cs) |-> cs[i].sql]
         IN  /\ applied' = run.applied
             /\ db' = run.db
             /\ out' = Outcome(options,
                               IF loop.failed THEN "DatabaseError" ELSE "ok",
                               TRUE, [i \in 1..Len(plan) |-> Key(plan[i][1])], run.log,
                               Sql(loop.executed),
                               Sql(CopyTransaction(loop.executed, loop.failed)),
                               loop.issued)

Migrate(options, fault) ==
    /\ Handle(options, fault)
    /\ UNCHANGED <<migration, registry, loader, disk, inplan, split, fixed,
                   filtered, result, flat, effect, built, validated, pair,
                   command>>

(***************************************************************************)
(* Inputs of the splitting pipeline.                                       *)
(***************************************************************************)
Field(name) == [name |-> name, column |-> name]
Index(name) == [name |-> name]

BookFull ==
    [name |-> "Book", app_label |-> "shop", db_table |-> "shop_book",
     fields |-> <<Field("id"), Field("title")>>,
     indexes |-> <<Index("book_title_idx")>>]
\* the same model before the new field and index were declared
BookBare ==
    [name |-> "Book", app_label |-> "shop", db_table |-> "shop_book",
     fields |-> <<Field("id")>>, indexes |-> <<>>]

\* installed apps and their models; the app "gone" is not installed
Registries ==
    {("shop" :> <<BookFull>>) @@ ("blog" :> <<>>),
     ("shop" :> <<BookBare>>) @@ ("blog" :> <<>>)}

Instructions ==
    {CreateModel("Book", <<"id", "title">>), DeleteModel("Tome"),
     RenameModel("Tome", "Book"), RenameModel("Tome", "Ghost"),
     AddField("book", "title"), RemoveField("book", "name"),
     RenameField("book", "name", "title"),
     AddIndex("book", "book_title_idx"), RemoveIndex("book", "book_name_idx"),
     RenameIndex("book", "book_title_idx", "book_name_idx"),
     AddConstraint("book", "title_uniq"), RemoveConstraint("book", "name_uniq"),
     RunPython("noop")}
    \cup {Alter(k, "book") : k \in IMPOSSIBLE_OPERATIONS}

NoFlags == [replaces |-> <<>>, run_before |-> <<>>, initial |-> FALSE]
SquashFlags == [replaces |-> << <<"shop", "0004_old">> >>,
                run_before |-> << <<"blog", "0003_next">> >>, initial |-> TRUE]

Dependencies ==
    {<<"shop", "0005_foo">>, <<"shop", "0005_foo_blue">>,
     <<"blog", "0002_bar_green">>, <<"gone", "0001_x">>,
     <<"shop", "0005_foo", "swappable">>}

\* migration files that may exist beside the source migration
FooBlue == Migration("0005_foo_blue", "shop", <<>>, <<>>, NoFlags)
FooGreen == Migration("0005_foo_green", "shop", << <<"shop", "0005_foo_blue">> >>,
                      <<>>, NoFlags)

PlanMigration(name) == Migration(name, "testapp", <<>>, <<>>, NoFlags)

PlanItems ==
    {<<PlanMigration(n), FALSE>> :
        n \in {"0001_initial_blue", "0001_initial_green", "0002_add_field",
               "0003_blue_sky"}}
    \cup {<<PlanMigration(n), TRUE>> : n \in {"0001_initial_green", "0002_add_field"}}

NotCalled == [called |-> FALSE]

InitCalls ==
    /\ split = NotCalled
    /\ fixed = NotCalled
    /\ filtered = NotCalled
    /\ result = NotCalled
    /\ applied = {}
    /\ out = NotCalled
    /\ flat = NotCalled
    /\ effect = NotCalled
    /\ built = NotCalled
    /\ validated = NotCalled
    /\ pair = NotCalled
    /\ command = NotCalled

\* instruction lists vary
InitOperations ==
    /\ \E ops \in SeqsUpTo(Instructions, MaxOps), app \in {"shop", "blog"} :
          migration = Migration("0006_change", app, << <<"shop", "0005_foo">> >>,
                                ops, NoFlags)
    /\ registry \in Registries
    /\ migration.app_label = "blog" => registry["shop"] = <<BookFull>>
    /\ loader = NoLoader
    /\ disk = {FooBlue, FooGreen}
    /\ inplan = <<>>

\* dependency lists, the loaded graph and the files on disk vary
InitDependencies ==
    /\ \E deps \in SeqsUpTo(Dependencies, MaxDeps), flags \in {NoFlags, SquashFlags} :
          migration = Migration("0006_change", "shop", deps,
                                <<AddField("book", "title")>>, flags)
    /\ registry = ("shop" :> <<BookFull>>) @@ ("blog" :> <<>>)
    /\ loader \in {NoLoader}
                  \cup {[loaded |-> TRUE, nodes |-> {Key(f) : f \in fs}] :
                           fs \in SUBSET {FooBlue, FooGreen}}
    /\ disk \in SUBSET {FooBlue, FooGreen}
    /\ inplan = <<>>

\* plans vary
InitPlans ==
    /\ migration = Migration("0006_change", "shop", <<>>, <<>>, NoFlags)
    /\ registry = ("shop" :> <<BookFull>>) @@ ("blog" :> <<>>)
    /\ loader = NoLoader
    /\ disk = {}
    /\ inplan \in SeqsUpTo(PlanItems, MaxPlan)

InitSplit == InitCalls /\ InitOperations /\ db = {}
InitDeps == InitCalls /\ InitDependencies /\ db = {}
InitPlan == InitCalls /\ InitPlans /\ db = {}

(***************************************************************************)
(* Calls of the pipeline's functions on the inputs.                        *)
(***************************************************************************)
SplitOperation(i) ==
    /\ i \in 1..Len(migration.operations)
    /\ split' = [called |-> TRUE, operation |-> migration.operations[i],
                 ret |-> split_operation(migration.operations[i],
                                         migration.app_label, registry)]
    /\ UNCHANGED <<migration, registry, loader, disk, inplan, fixed, filtered,
                   result, applied, db, out, flat, effect, built, validated,
                   pair, command>>

SplitOperations ==
    /\ flat' = [called |-> TRUE, method |-> "split_operations", pass |-> 1,
                operations |-> migration.operations,
                ret |-> split_operations(migration.operations, migration.app_label,
                                        registry)]
    /\ UNCHANGED <<migration, registry, loader, disk, inplan, split, fixed,
                   filtered, result, applied, db, out, effect, built,
                   validated, pair, command>>

\* split_operations on the two lists it returned, blue before green
SplitOperationsAgain ==
    /\ flat.called
    /\ flat.method = "split_operations"
    /\ flat.pass = 1
    /\ flat.ret.ok
    /\ flat' = [called |-> TRUE, method |-> "split_operations", pass |-> 2,
                operations |-> flat.ret.blue \o flat.ret.green,
                first |-> flat.ret,
                ret |-> split_operations(flat.ret.blue \o flat.ret.green,
                                        migration.app_label, registry)]
    /\ UNCHANGED <<migration, registry, loader, disk, inplan, split, fixed,
                   filtered, result, applied, db, out, effect, built,
                   validated, pair, command>>

DetectImpossibleOperations ==
    /\ flat' = [called |-> TRUE, method |-> "detect_impossible_operations",
                operations |-> migration.operations,
                ret |-> detect_impossible_operations(migration.operations)]
    /\ UNCHANGED <<migration, registry, loader, disk, inplan, split, fixed,
                   filtered, result, applied, db, out, effect, built,
                   validated, pair, command>>

FixDependencies(is_green) ==
    /\ fixed' = [called |-> TRUE, is_green |-> is_green,
                 dependencies |-> migration.dependencies,
                 ret |-> _fix_dependencies(migration.dependencies, is_green,
                                          loader, disk, registry)]
    /\ loader' = _get_migration_loader(loader, disk, registry)
    /\ UNCHANGED <<migration, registry, disk, inplan, split, filtered, result,
                   applied, db, out, flat, effect, built, validated, pair,
                   command>>

FilterPlan(blue_mode, green_mode) ==
    /\ filtered' = [called |-> TRUE, blue_mode |-> blue_mode,
                    green_mode |-> green_mode, plan |-> inplan,
                    ret |-> filter_plan(inplan, blue_mode, green_mode)]
    /\ UNCHANGED <<migration, registry, loader, disk, inplan, split, fixed,
                   result, applied, db, out, flat, effect, built, validated,
                   pair, command>>

ProcessMigration ==
    /\ result' = [called |-> TRUE, migration |-> migration,
                  ret |-> process_migration(migration, loader, disk, registry)]
    /\ loader' = LoaderAfter(migration, loader, disk, registry)
    /\ UNCHANGED <<migration, registry, disk, inplan, split, fixed, filtered,
                   applied, db, out, flat, effect, built, validated, pair,
                   command>>

\* PatchedMigrationWriter(migration).split_migrations(impossible)
SplitMigrations(impossible) ==
    /\ pair' = [called |-> TRUE, migration |-> migration, impossible |-> impossible,
                ret |-> split_migrations(migration, impossible, registry)]
    /\ UNCHANGED <<migration, registry, loader, disk, inplan, split, fixed,
                   filtered, result, applied, db, out, flat, effect, built,
                   validated, command>>

NextSplit ==
    \/ \E i \in 1..MaxOps : SplitOperation(i)
    \/ SplitOperations
    \/ SplitOperationsAgain
    \/ DetectImpossibleOperations
    \/ ProcessMigration

NextDeps ==
    \/ \E is_green \in BOOLEAN : FixDependencies(is_green)
    \/ ProcessMigration
    \/ \E impossible \in BOOLEAN : SplitMigrations(impossible)

NextPlan ==
    \E blue_mode \in BOOLEAN, green_mode \in BOOLEAN : FilterPlan(blue_mode, green_mode)

\* split_operation and process_migration over instruction lists
SpecSplit == InitSplit /\ [][NextSplit]_vars
\* _fix_dependencies and process_migration over dependency lists
SpecDeps == InitDeps /\ [][NextDeps]_vars
\* filter_plan over plans
SpecPlan == InitPlan /\ [][NextPlan]_vars

(***************************************************************************)
(* One instruction and its split, applied to the same schema.              *)
(***************************************************************************)
SchemaObjects ==
    {<<"column", "shop_book", c>> : c \in {"id", "name", "title"}}
    \cup {<<"column", "shop_tome", c>> : c \in {"id", "title", "code"}}
    \cup {<<"index", "shop_book", "book_name_idx">>, <<"index", "shop_tome", "tome_idx">>,
          <<"constraint", "shop_book", "name_uniq">>}

TableExists(schema, table) == \E o \in schema : o[1] = "column" /\ o[2] = table

\* an index or a constraint belongs to a table that has columns
Schemas ==
    {schema \in SUBSET SchemaObjects :
        \A o \in schema : o[1] # "column" => TableExists(schema, o[2])}

\* the instructions some strategy handles
HandledInstructions ==
    {op \in Instructions :
        /\ op.kind \notin IMPOSSIBLE_OPERATIONS
        /\ \/ ModelStrategy_can_handle(op) \/ FieldStrategy_can_handle(op)
           \/ IndexStrategy_can_handle(op) \/ ConstraintStrategy_can_handle(op)}

\* the schema editor accepts the instruction on this schema
Applicable(schema, app_label, op) ==
    LET Has(type, model_name, name) ==
            <<type, TableOf(app_label, model_name), name>> \in schema
        Table(model_name) == TableExists(schema, TableOf(app_label, model_name))
        Free(model_name) == \A o \in schema : o[2] # TableOf(app_label, model_name)
    IN  CASE op.kind = "CreateModel" -> Free(op.name)
          [] op.kind = "DeleteModel" -> Table(op.name)
          [] op.kind = "RenameModel" -> Table(op.old_name) /\ Free(op.new_name)
          [] op.kind = "AddField" ->
                Table(op.model_name) /\ ~Has("column", op.model_name, op.name)
          [] op.kind = "RemoveField" -> Has("column", op.model_name, op.name)
          [] op.kind = "RenameField" ->
                /\ Has("column", op.model_name, op.old_name)
                /\ ~Has("column", op.model_name, op.new_name)
          [] op.kind = "AddIndex" ->
                Table(op.model_name) /\ ~Has("index", op.model_name, op.name)
          [] op.kind = "RemoveIndex" -> Has("index", op.model_name, op.name)
          [] op.kind = "RenameIndex" ->
                /\ Has("index", op.model_name, op.old_name)
                /\ ~Has("index", op.model_name, op.new_name)
          [] op.kind = "AddConstraint" ->
                Table(op.model_name) /\ ~Has("constraint", op.model_name, op.name)
          [] op.kind = "RemoveConstraint" -> Has("constraint", op.model_name, op.name)
          [] OTHER -> TRUE

\* the model class a table of the schema was created from
ModelOfTable(schema, app_label, model_name) ==
    LET cols == {o[3] : o \in {x \in schema :
                     x[1] = "column" /\ x[2] = TableOf(app_label, model_name)}}
        RECURSIVE Listed(_)
        Listed(cs) == IF cs = {} THEN <<>>
                      ELSE LET c == CHOOSE x \in cs : TRUE
                           IN  <<Field(c)>> \o Listed(cs \ {c})
    IN  [name |-> model_name, app_label |-> app_label,
         db_table |-> TableOf(app_label, model_name),
         fields |-> Listed(cols), indexes |-> <<>>]

InitSchema ==
    /\ InitCalls
    /\ \E op \in HandledInstructions :
          migration = Migration("0006_change", "shop", << <<"shop", "0005_foo">> >>,
                                <<op>>, NoFlags)
    /\ registry \in Registries
    /\ loader = NoLoader
    /\ disk = {FooBlue, FooGreen}
    /\ inplan = <<>>
    /\ db \in Schemas

\* the instruction is applied to the schema as it is, and as its blue
\* instructions followed by its green instructions
ApplySplit ==
    LET op == migration.operations[1]
        ret == split_operation(op, migration.app_label, registry)
        NotNone(t) == SelectSeq(t, LAMBDA o : o # None)
    IN  /\ Applicable(db, migration.app_label, op)
        /\ effect' =
              [called |-> TRUE, operation |-> op, schema |-> db, ret |-> ret,
               original |-> ApplyOperation(db, migration.app_label, op),
               phased |->
                  IF ret.ok
                  THEN ApplyOperations(
                           ApplyOperations(db, migration.app_label, NotNone(ret.blue)),
                           migration.app_label, NotNone(ret.green))
                  ELSE db]
        /\ UNCHANGED <<migration, registry, loader, disk, inplan, split,
                       fixed, filtered, result, applied, db, out, flat, built,
                       validated, pair, command>>

NextSchema == ApplySplit

\* instructions against schemas
SpecSchema == InitSchema /\ [][NextSchema]_vars

(***************************************************************************)
(* Calls of the SQL builder.                                               *)
(***************************************************************************)
\* table and column names: plain, with a dash, with a space, a reserved
\* word, and a name that is already quoted
Names == {"users", "a-b", "c d", "select", "\"q\""}

\* where clauses a caller supplies; "" is None
WhereClauses == {"", "\"age\" > 18", "age > 18"}

\* the arguments of the call to come
InsertSelectArgs ==
    {[called |-> FALSE, method |-> "build_insert_select",
      source_table |-> source_table, target_table |-> target_table,
      columns |-> columns] :
        source_table \in Names, target_table \in Names,
        columns \in SeqsUpTo(Names, MaxCols) \ {<<>>}}
UpdateFieldCopyArgs ==
    {[called |-> FALSE, method |-> "build_update_field_copy", table |-> table,
      new_column |-> new_column, old_column |-> old_column,
      where_clause |-> where_clause] :
        table \in Names, new_column \in Names, old_column \in Names,
        where_clause \in WhereClauses}

InitSql ==
    /\ migration = Migration("0006_change", "shop", <<>>, <<>>, NoFlags)
    /\ registry = ("shop" :> <<BookFull>>) @@ ("blog" :> <<>>)
    /\ loader = NoLoader
    /\ disk = {}
    /\ inplan = <<>>
    /\ split = NotCalled
    /\ fixed = NotCalled
    /\ filtered = NotCalled
    /\ result = NotCalled
    /\ applied = {}
    /\ db = {}
    /\ out = NotCalled
    /\ flat = NotCalled
    /\ effect = NotCalled
    /\ built \in InsertSelectArgs \cup UpdateFieldCopyArgs
    /\ validated = NotCalled
    /\ pair = NotCalled
    /\ command = NotCalled

BuildInsertSelect ==
    /\ ~built.called
    /\ built.method = "build_insert_select"
    /\ built' = [called |-> TRUE, method |-> built.method,
                 where_clause |-> "",
                 ret |-> build_insert_select(built.source_table, built.target_table,
                                             built.columns)]
    /\ UNCHANGED <<migration, registry, loader, disk, inplan, split, fixed,
                   filtered, result, applied, db, out, flat, effect,
                   validated, pair, command>>

BuildUpdateFieldCopy ==
    /\ ~built.called
    /\ built.method = "build_update_field_copy"
    /\ built' = [called |-> TRUE, method |-> built.method,
                 where_clause |-> built.where_clause,
                 ret |-> build_update_field_copy(built.table, built.new_column,
                                                 built.old_column, built.where_clause)]
    /\ UNCHANGED <<migration, registry, loader, disk, inplan, split, fixed,
                   filtered, result, applied, db, out, flat, effect,
                   validated, pair, command>>

NextSql ==
    \/ BuildInsertSelect
    \/ BuildUpdateFieldCopy

\* the SQL builder over names and where clauses
SpecSql == InitSql /\ [][NextSql]_vars

(***************************************************************************)
(* The SQL validator over pairs of models.                                 *)
(***************************************************************************)
ValidatorColumns == {"id", "id_old", "Title", "name"}

\* a model class with the given columns, in declaration order
ValidatorModel(name, columns) ==
    [name |-> name, app_label |-> "shop", db_table |-> "shop_" \o name,
     fields |-> [i \in 1..Len(columns) |-> Field(columns[i])], indexes |-> <<>>]

ValidatorArgs ==
    {[called |-> FALSE, model_from |-> ValidatorModel("old", cf),
      model_to |-> ValidatorModel("new", ct)] :
        cf \in {c \in SeqsUpTo(ValidatorColumns, MaxCols) :
                   Cardinality(SeqToSet(c)) = Len(c)},
        ct \in {c \in SeqsUpTo(ValidatorColumns, MaxCols) :
                   Cardinality(SeqToSet(c)) = Len(c)}}

InitValid ==
    /\ migration = Migration("0006_change", "shop", <<>>, <<>>, NoFlags)
    /\ registry = ("shop" :> <<BookFull>>) @@ ("blog" :> <<>>)
    /\ loader = NoLoader
    /\ disk = {}
    /\ inplan = <<>>
    /\ split = NotCalled
    /\ fixed = NotCalled
    /\ filtered = NotCalled
    /\ result = NotCalled
    /\ applied = {}
    /\ db = {}
    /\ out = NotCalled
    /\ flat = NotCalled
    /\ effect = NotCalled
    /\ built = NotCalled
    /\ validated \in ValidatorArgs
    /\ pair = NotCalled
    /\ command = NotCalled

\* get_common_columns(model_from, model_to), and the call with the
\* arguments swapped
GetCommonColumns ==
    /\ ~validated.called
    /\ validated' = [called |-> TRUE, method |-> "get_common_columns",
                     model_from |-> validated.model_from,
                     model_to |-> validated.model_to,
                     ret |-> get_common_columns(validated.model_from,
                                                validated.model_to),
                     swapped |-> get_common_columns(validated.model_to,
                                                    validated.model_from)]
    /\ UNCHANGED <<migration, registry, loader, disk, inplan, split, fixed,
                   filtered, result, applied, db, out, flat, effect, built,
                   pair, command>>

CheckSafeForInsertSelect ==
    /\ ~validated.called
    /\ validated' = [called |-> TRUE, method |-> "check_safe_for_insert_select",
                     model_from |-> validated.model_from,
                     model_to |-> validated.model_to,
                     ret |-> check_safe_for_insert_select(validated.model_from,
                                                          validated.model_to)]
    /\ UNCHANGED <<migration, registry, loader, disk, inplan, split, fixed,
                   filtered, result, applied, db, out, flat, effect, built,
                   pair, command>>

NextValid ==
    \/ GetCommonColumns
    \/ CheckSafeForInsertSelect

\* the SQL validator over pairs of models
SpecValid == InitValid /\ [][NextValid]_vars

(***************************************************************************)
(* The project the migrations are made for, written and applied.           *)
(***************************************************************************)
Note ==
    [name |-> "Note", app_label |-> "blog", db_table |-> "blog_note",
     fields |-> <<Field("id"), Field("book")>>, indexes |-> <<>>]

\* Book after name became title and pages became length
ProjectBook ==
    [name |-> "Book", app_label |-> "shop", db_table |-> "shop_book",
     fields |-> <<Field("id"), Field("title"), Field("length")>>, indexes |-> <<>>]

ProjectRegistry == ("shop" :> <<ProjectBook>>) @@ ("blog" :> <<Note>>)

\* the migration already on disk: Book with the fields name and pages
Initial ==
    Migration("0001_initial", "shop", <<>>, <<CreateModel("Book", <<"id", "name", "pages">>)>>,
              [replaces |-> <<>>, run_before |-> <<>>, initial |-> TRUE])

\* the migrations the autodetector hands over: Book.name renamed to title
\* and Book.pages to length,
\* the new app blog, which depends on the rename, and a later field of Book
SrcRename ==
    Migration("0002_rename", "shop", << <<"shop", "0001_initial">> >>,
              <<RenameField("book", "name", "title"),
                RenameField("book", "pages", "length")>>, NoFlags)
SrcNotes ==
    Migration("0001_notes", "blog", << <<"shop", "0002_rename">> >>,
              <<CreateModel("Note", <<"id", "book">>)>>,
              [replaces |-> <<>>, run_before |-> <<>>, initial |-> TRUE])

SrcIsbn ==
    Migration("0003_isbn", "shop", << <<"shop", "0002_rename">> >>,
              <<AddField("book", "isbn")>>, NoFlags)

SourceMigrations == {SrcRename, SrcNotes, SrcIsbn}

Init ==
    /\ InitCalls
    /\ migration \in SourceMigrations
    /\ registry = ProjectRegistry
    /\ loader = NoLoader
    /\ disk = {Initial}
    /\ inplan = <<>>
    /\ db = {}

\* a new processor is handed the next source migration
NewSource(src) ==
    /\ src # migration
    /\ migration' = src
    /\ loader' = NoLoader
    /\ result' = NotCalled
    /\ UNCHANGED <<registry, disk, inplan, split, fixed, filtered, applied,
                   db, out, flat, effect, built, validated, pair, command>>

\* write_migration_pair (dry_run off): both files are written, replacing
\* files of the same name
WriteMigrationPair ==
    /\ result.called
    /\ result.ret.status = "returned"
    /\ disk' = {f \in disk : Key(f) \notin {Key(result.ret.blue), Key(result.ret.green)}}
               \cup {result.ret.blue, result.ret.green}
    /\ UNCHANGED <<migration, registry, loader, inplan, split, fixed,
                   filtered, result, applied, db, out, flat, effect, built,
                   validated, pair, command>>

HalfKey(src, suffix) == <<src.app_label, src.name \o suffix>>

\* the next change of app shop, detected when the rename's pair is the leaf
SrcIsbnOnLeaf ==
    Migration("0003_isbn", "shop", << <<"shop", "0002_rename_green">> >>,
              <<AddField("book", "isbn")>>, NoFlags)

\* what the autodetector hands to write_migration_files in one invocation:
\* the rename alone, the rename with the new app that depends on it, in
\* either iteration order of the changes dict, or the later change
BlueGreenChanges ==
    {<<SrcRename>>, <<SrcRename, SrcNotes>>, <<SrcNotes, SrcRename>>, <<SrcIsbnOnLeaf>>}

\* one invocation of the bluegreen command; the autodetector reports
\* changes only for migrations that are not on disk yet, depending on
\* migrations of the graph or on each other
BlueGreen(changes, dry_run) ==
    /\ \A i \in 1..Len(changes) :
          /\ {HalfKey(changes[i], BLUE_SUFFIX), HalfKey(changes[i], GREEN_SUFFIX)}
                 \cap {Key(f) : f \in disk} = {}
          /\ SeqToSet(changes[i].dependencies)
                 \subseteq {Key(f) : f \in disk}
                           \cup {Key(changes[j]) : j \in 1..Len(changes)}
    /\ command' = [called |-> TRUE, changes |-> changes, dry_run |-> dry_run,
                   before |-> disk,
                   ret |-> write_migration_files(changes, dry_run, registry)]
    /\ disk' = {f \in disk :
                   Key(f) \notin {Key(x) : x \in SeqToSet(command'.ret.written)}}
               \cup SeqToSet(command'.ret.written)
    /\ UNCHANGED <<migration, registry, loader, inplan, split, fixed,
                   filtered, result, applied, db, out, flat, effect, built,
                   validated, pair>>

Next ==
    \/ \E src \in SourceMigrations : NewSource(src)
    \/ ProcessMigration
    \/ WriteMigrationPair
    \/ \E blue \in BOOLEAN, green \in BOOLEAN, fault \in 0..MaxFault :
          Migrate([blue |-> blue, green |-> green], fault)

Spec == Init /\ [][Next]_vars

InitCommand == Init /\ migration = SrcRename

NextCommand ==
    \/ \E changes \in BlueGreenChanges, dry_run \in BOOLEAN : BlueGreen(changes, dry_run)
    \/ \E blue \in BOOLEAN, green \in BOOLEAN, fault \in 0..MaxFault :
          Migrate([blue |-> blue, green |-> green], fault)

\* migrations are written by invocations of the bluegreen command and
\* applied by invocations of migrate
SpecCommand == InitCommand /\ [][NextCommand]_vars

(***************************************************************************)
(* Properties.                                                             *)
(***************************************************************************)
Additive == {"CreateModel", "AddField", "AddIndex", "AddConstraint"}
Destructive == {"DeleteModel", "RemoveField", "RemoveIndex", "RemoveConstraint"}
Renames == {"RenameModel", "RenameField", "RenameIndex"}

\* the number of elements of s[1..i] that are in keep
CountIn(s, i, keep) == Cardinality({j \in 1..i : s[j] \in keep})

\* sub is exactly the elements of s that are in keep, in the order of s
IsSelection(sub, s, keep) ==
    /\ Len(sub) = CountIn(s, Len(s), keep)
    /\ \A i \in 1..Len(s) : s[i] \in keep => sub[CountIn(s, i, keep)] = s[i]

HasImpossible(operations) ==
    \E i \in 1..Len(operations) : operations[i].kind \in IMPOSSIBLE_OPERATIONS

\* C2: a migration holding an instruction of an IMPOSSIBLE kind, wherever it
\* stands and whatever the other instructions are, makes process_migration
\* raise ImpossibleOperationError carrying exactly the impossible
\* instructions in their original order, and no blue or green migration is
\* returned.
C2_ImpossibleFails ==
    (result.called /\ HasImpossible(result.migration.operations)) =>
        /\ result.ret.status = "raised"
        /\ result.ret.error = "ImpossibleOperationError"
        /\ IsSelection(result.ret.impossible, result.migration.operations,
                       {op \in SeqToSet(result.migration.operations) :
                           op.kind \in IMPOSSIBLE_OPERATIONS})
        /\ result.ret.blue = None
        /\ result.ret.green = None

\* an unresolvable rename stands before the impossible instruction
C2_Witness ==
    /\ result.called
    /\ Len(result.migration.operations) = 2
    /\ result.migration.operations[1] = RenameModel("Tome", "Ghost")
    /\ result.migration.operations[2].kind = "AlterField"
    /\ result.ret.error = "ImpossibleOperationError"
    /\ result.ret.impossible = <<result.migration.operations[2]>>

\* C3: a migration without impossible instructions that splits returns
\* <name>_blue and <name>_green in the source's app, holding the blue and
\* the green list of split_operations, and green depends on exactly
\* (app, <name>_blue).
C3_PairShape ==
    LET m == result.migration
        s == split_operations(m.operations, m.app_label, registry)
    IN  (result.called /\ ~HasImpossible(m.operations) /\ s.ok) =>
            /\ result.ret.status = "returned"
            /\ result.ret.blue.name = m.name \o "_blue"
            /\ result.ret.green.name = m.name \o "_green"
            /\ result.ret.blue.app_label = m.app_label
            /\ result.ret.green.app_label = m.app_label
            /\ result.ret.blue.operations = s.blue
            /\ result.ret.green.operations = s.green
            /\ result.ret.green.dependencies = << <<m.app_label, m.name \o "_blue">> >>

C3_Witness ==
    /\ result.called
    /\ result.ret.status = "returned"
    /\ result.migration.dependencies # <<>>
    /\ Len(result.ret.blue.operations) = 3
    /\ Len(result.ret.green.operations) = 1
    /\ result.ret.green.dependencies = << <<"shop", "0006_change_blue">> >>

\* C7: create-model, add-field, add-index and add-constraint split into the
\* one-element blue tuple holding the instruction and the one-element green
\* tuple holding the null placeholder.
C7_AdditiveSplit ==
    (split.called /\ split.operation.kind \in Additive) =>
        /\ split.ret.ok
        /\ split.ret.blue = <<split.operation>>
        /\ split.ret.green = <<None>>

C7_Witness ==
    /\ split.called
    /\ split.operation = AddConstraint("book", "title_uniq")
    /\ split.ret.blue = <<AddConstraint("book", "title_uniq")>>

\* C8: delete-model, remove-field, remove-index and remove-constraint split
\* into the one-element blue tuple holding the null placeholder and the
\* one-element green tuple holding the instruction.
C8_DestructiveSplit ==
    (split.called /\ split.operation.kind \in Destructive) =>
        /\ split.ret.ok
        /\ split.ret.blue = <<None>>
        /\ split.ret.green = <<split.operation>>

C8_Witness ==
    /\ split.called
    /\ split.operation = RemoveIndex("book", "book_name_idx")
    /\ split.ret.green = <<RemoveIndex("book", "book_name_idx")>>

RunSQLCount(t) == Cardinality({i \in 1..Len(t) : t[i].kind = "RunSQL"})

\* C9: a rename that resolves splits into a blue tuple that starts with the
\* create/add of the new object carrying the old name, and a green tuple of
\* exactly one delete/remove of the old name; rename-model and rename-field
\* hold exactly one RunSQL in blue, after the create/add; rename-index none.
C9_RenameSplit ==
    LET op == split.operation
        blue == split.ret.blue
        green == split.ret.green
    IN  (split.called /\ op.kind \in Renames /\ split.ret.ok) =>
            /\ Len(blue) >= 1
            /\ Len(green) = 1
            /\ blue[1].kind \in {"CreateModelPatched", "AddFieldPatched", "AddIndexPatched"}
            /\ blue[1].old_name = op.old_name
            /\ green[1].kind \in {"DeleteModel", "RemoveField", "RemoveIndex"}
            /\ green[1].name = op.old_name
            /\ op.kind = "RenameModel" =>
                  /\ blue[1].kind = "CreateModelPatched"
                  /\ Lower(blue[1].name) = Lower(op.new_name)
                  /\ green[1].kind = "DeleteModel"
            /\ op.kind = "RenameField" =>
                  /\ blue[1].kind = "AddFieldPatched"
                  /\ blue[1].name = op.new_name
                  /\ green[1].kind = "RemoveField"
            /\ op.kind = "RenameIndex" =>
                  /\ blue[1].kind = "AddIndexPatched"
                  /\ blue[1].index.name = op.new_name
                  /\ green[1].kind = "RemoveIndex"
            /\ op.kind \in {"RenameModel", "RenameField"} =>
                  /\ Len(blue) = 2
                  /\ RunSQLCount(blue) = 1
                  /\ blue[2].kind = "RunSQL"
            /\ op.kind = "RenameIndex" => RunSQLCount(blue) = 0

C9_Witness ==
    /\ split.called
    /\ split.operation = RenameField("book", "name", "title")
    /\ split.ret.ok
    /\ Len(split.ret.blue) = 2
    /\ split.ret.green = <<RemoveField("book", "name")>>

\* C10: the blue migration of an accepted instruction list holds no
\* delete-model, remove-field, remove-index or remove-constraint, and every
\* such instruction of the source, and the one synthesized by each rename,
\* is in the green migration.
C10_BlueAdditive ==
    LET src == result.migration.operations
        blue == result.ret.blue.operations
        green == result.ret.green.operations
        SynthKind(k) == CASE k = "RenameModel" -> "DeleteModel"
                          [] k = "RenameField" -> "RemoveField"
                          [] k = "RenameIndex" -> "RemoveIndex"
    IN  (result.called /\ result.ret.status = "returned") =>
            /\ \A i \in 1..Len(blue) : blue[i].kind \notin Destructive
            /\ \A i \in 1..Len(src) :
                  src[i].kind \in Destructive => src[i] \in SeqToSet(green)
            /\ \A i \in 1..Len(src) :
                  src[i].kind \in Renames =>
                      \E j \in 1..Len(green) :
                          /\ green[j].kind = SynthKind(src[i].kind)
                          /\ green[j].name = src[i].old_name

C10_Witness ==
    /\ result.called
    /\ result.ret.status = "returned"
    /\ result.migration.operations =
           <<DeleteModel("Tome"), RenameIndex("book", "book_title_idx", "book_name_idx")>>
    /\ Len(result.ret.green.operations) = 2
    /\ Len(result.ret.blue.operations) = 1

Unsuffixed(dep) ==
    Len(dep) = 2 /\ ~EndsWith(dep[2], "_blue") /\ ~EndsWith(dep[2], "_green")

\* the candidate is a node of the loaded graph or a migration file on disk
CandidateExists(key) == key \in loader.nodes \/ key \in {Key(f) : f \in disk}

RewrittenFor(dependencies, ret, suffix) ==
    /\ Len(ret) = Len(dependencies)
    /\ \A i \in 1..Len(dependencies) :
          Unsuffixed(dependencies[i]) =>
              LET candidate == <<dependencies[i][1], dependencies[i][2] \o suffix>>
              IN  ret[i] = IF CandidateExists(candidate) THEN candidate
                           ELSE dependencies[i]

\* C4: _fix_dependencies maps a dependency (app, name) without suffix to
\* (app, name + target suffix) exactly when that candidate is in the loaded
\* graph or on disk, and leaves it unchanged otherwise; the blue migration
\* of process_migration carries the source's dependencies rewritten for blue.
C4_DependencyRewriting ==
    /\ fixed.called =>
          RewrittenFor(fixed.dependencies, fixed.ret,
                       IF fixed.is_green THEN "_green" ELSE "_blue")
    /\ (result.called /\ result.ret.status = "returned") =>
          RewrittenFor(result.migration.dependencies,
                       result.ret.blue.dependencies, "_blue")

\* (shop, 0005_foo_blue) exists on disk only, and blue is redirected to it
C4_Witness ==
    /\ result.called
    /\ result.ret.status = "returned"
    /\ result.migration.dependencies = << <<"shop", "0005_foo">> >>
    /\ FooBlue \in disk
    /\ <<"shop", "0005_foo_blue">> \notin loader.nodes
    /\ result.ret.blue.dependencies = << <<"shop", "0005_foo_blue">> >>

NotGreen(plan) == {item \in SeqToSet(plan) : ~EndsWith(item[1].name, "_green")}
NotBlue(plan) == {item \in SeqToSet(plan) : ~EndsWith(item[1].name, "_blue")}

\* C5: filter_plan returns, in blue mode, exactly the items not named
\* *_green in their order; in green mode exactly the items not named *_blue;
\* in unrestricted mode the plan itself; an item with neither suffix is kept
\* in all three modes.
C5_FilterPlan ==
    (filtered.called /\ ~(filtered.blue_mode /\ filtered.green_mode)) =>
        /\ filtered.blue_mode =>
              IsSelection(filtered.ret, filtered.plan, NotGreen(filtered.plan))
        /\ filtered.green_mode =>
              IsSelection(filtered.ret, filtered.plan, NotBlue(filtered.plan))
        /\ (~filtered.blue_mode /\ ~filtered.green_mode) => filtered.ret = filtered.plan
        /\ \A i \in 1..Len(filtered.plan) :
              (/\ ~EndsWith(filtered.plan[i][1].name, "_blue")
               /\ ~EndsWith(filtered.plan[i][1].name, "_green"))
              => filtered.plan[i] \in SeqToSet(filtered.ret)

C5_Witness ==
    /\ filtered.called
    /\ filtered.blue_mode
    /\ ~filtered.green_mode
    /\ filtered.plan = << <<PlanMigration("0001_initial_blue"), FALSE>>,
                          <<PlanMigration("0001_initial_green"), FALSE>>,
                          <<PlanMigration("0002_add_field"), FALSE>> >>
    /\ filtered.ret = << <<PlanMigration("0001_initial_blue"), FALSE>>,
                         <<PlanMigration("0002_add_field"), FALSE>> >>

\* the blue counterpart of a green migration's key
BlueOf(key) == <<key[1], SubSeq(key[2], 1, Len(key[2]) - Len(GREEN_SUFFIX)) \o BLUE_SUFFIX>>

\* C1: in every migrate invocation, whatever the mode, a green migration is
\* applied only when its own blue counterpart is already applied.
C1_GreenAfterBlue ==
    out.called =>
        \A i \in 1..Len(out.log) :
            EndsWith(out.log[i].key[2], GREEN_SUFFIX)
            => BlueOf(out.log[i].key) \in out.log[i].before

\* C6: a migrate invocation with --blue and --green together ends in the
\* usage error with no plan computed, no migration applied and no copy
\* statement executed, and leaves the database and the ledger as they were.
C6_BothModesRejected ==
    [][(out'.called /\ out'.options.blue /\ out'.options.green)
       => /\ out'.status = "CommandError: both modes"
          /\ ~out'.planned
          /\ out'.plan = <<>>
          /\ out'.log = <<>>
          /\ out'.copies = <<>>
          /\ UNCHANGED <<applied, db>>]_vars

\* both flags given while the rename pair is on disk and not yet applied
C6_Witness ==
    /\ out.called
    /\ out.options.blue
    /\ out.options.green
    /\ out.status = "CommandError: both modes"
    /\ <<"shop", "0001_initial">> \in applied
    /\ \E f \in disk : Key(f) = <<"shop", "0002_rename_blue">>
    /\ <<"shop", "0002_rename_blue">> \notin applied

\* the columns of a table in a schema
ColumnsOf(schema, table) == {o[3] : o \in {x \in schema : x[1] = "column" /\ x[2] = table}}

\* the renamed table holds exactly the columns of the model it is renamed to
RenamedTableMatches(e) ==
    e.operation.kind = "RenameModel" =>
        ColumnsOf(e.schema, TableOf("shop", e.operation.old_name))
        = {e.ret.blue[1].fields[i][1] : i \in 1..Len(e.ret.blue[1].fields)}

\* C11: for a handled instruction applicable to a schema (a renamed table
\* holding the columns of its model), the blue instructions followed by the
\* green instructions leave the same set of schema objects as the
\* instruction itself.
C11_SplitEquivalent ==
    (effect.called /\ effect.ret.ok /\ RenamedTableMatches(effect))
    => effect.phased = effect.original

StartsWith(s, prefix) ==
    /\ Len(s) >= Len(prefix)
    /\ SubSeq(s, 1, Len(prefix)) = prefix

\* C12: the copy statement of a rename-model split writes (INSERT INTO) the
\* table of the new name and reads (FROM) the table of the old name.
C12_CopyDirection ==
    (split.called /\ split.operation.kind = "RenameModel" /\ split.ret.ok) =>
        LET old_table == quote_identifier(TableOf("shop", split.operation.old_name))
            new_table == quote_identifier(TableOf("shop", split.operation.new_name))
            sql == split.ret.blue[2].sql
        IN  /\ StartsWith(sql, "INSERT INTO " \o new_table \o " ")
            /\ EndsWith(sql, " FROM " \o old_table)

\* the model the rename resolves, and the model its data is read from
RenameTarget(e) ==
    get_model_safely(registry, "shop",
                     IF e.operation.kind = "RenameModel" THEN e.operation.new_name
                     ELSE e.operation.model_name)
RenameOrigin(e) ==
    ModelOfTable(e.schema, "shop",
                 IF e.operation.kind = "RenameModel" THEN e.operation.old_name
                 ELSE e.operation.model_name)

\* C14: the split of a rename-model or rename-field whose old and new
\* schemas have no column in common raises SchemaValidationError and
\* produces no tuples.
C14_NoCommonColumnsFails ==
    (/\ effect.called
     /\ effect.operation.kind \in {"RenameModel", "RenameField"}
     /\ RenameTarget(effect).ok
     /\ check_safe_for_insert_select(RenameOrigin(effect), RenameTarget(effect).value) # "")
    => /\ ~effect.ret.ok
       /\ effect.ret.error = "SchemaValidationError"
       /\ effect.ret.blue = <<>>

Letters ==
    {"a", "b", "c", "d", "e", "f", "g", "h", "i", "j", "k", "l", "m", "n", "o",
     "p", "q", "r", "s", "t", "u", "v", "w", "x", "y", "z", "_",
     "A", "B", "C", "D", "E", "F", "G", "H", "I", "J", "K", "L", "M", "N", "O",
     "P", "Q", "R", "S", "T", "U", "V", "W", "X", "Y", "Z"}

SqlKeywords == {"INSERT", "INTO", "SELECT", "FROM", "UPDATE", "SET", "WHERE"}

\* the words of sql that stand outside double quotes
BareWords(sql) ==
    LET n == Len(sql)
        Quotes == {i \in 1..n : SubSeq(sql, i, i) = "\""}
        Bare == {i \in 1..n : /\ SubSeq(sql, i, i) \in Letters
                              /\ Cardinality({q \in Quotes : q < i}) % 2 = 0}
        Starts == {i \in Bare : (i - 1) \notin Bare}
        EndOf(i) == CHOOSE j \in i..n :
                        /\ \A k \in i..j : k \in Bare
                        /\ (j + 1) \notin Bare
    IN  {SubSeq(sql, i, EndOf(i)) : i \in Starts}

\* C13: in the SQL text of build_insert_select and build_update_field_copy,
\* with or without a where clause, no identifier stands outside the quotes
\* of the quoting facility: the only bare words are the statement keywords.
C13_NoBareIdentifier ==
    built.called => BareWords(built.ret.sql) \subseteq SqlKeywords

IsMigration(m) ==
    DOMAIN m = {"name", "app_label", "dependencies", "operations", "replaces",
                "run_before", "initial"}

\* C16: process_migration either returns a blue and a green migration, both
\* complete, or raises and hands back neither, whichever instruction
\* failed; the source migration is as it was.
C16_PairOrNothing ==
    result.called =>
        /\ result.migration = migration
        /\ \/ /\ result.ret.status = "returned"
              /\ IsMigration(result.ret.blue)
              /\ IsMigration(result.ret.green)
           \/ /\ result.ret.status = "raised"
              /\ result.ret.error # ""
              /\ result.ret.blue = None
              /\ result.ret.green = None

\* the second instruction fails after the first one split
C16_Witness ==
    /\ result.called
    /\ migration.operations = <<AddField("book", "title"), RenameModel("Tome", "Ghost")>>
    /\ result.ret.status = "raised"
    /\ result.ret.error = "ModelNotFoundError"
    /\ result.ret.blue = None

\* what the registry declares
ModelDeclared(app_label, model_name) ==
    /\ app_label \in DOMAIN registry
    /\ \E i \in 1..Len(registry[app_label]) :
          Lower(registry[app_label][i].name) = Lower(model_name)
DeclaredModel(app_label, model_name) ==
    CHOOSE model \in SeqToSet(registry[app_label]) : Lower(model.name) = Lower(model_name)

\* C17: a rename whose target cannot be resolved raises ModelNotFoundError
\* when the model is missing, and FieldNotFoundError or IndexNotFoundError
\* when the model is there and the field or index is missing; no tuples are
\* returned.
C17_UnresolvedRename ==
    LET op == split.operation
        app == migration.app_label
        Fails(e) == /\ ~split.ret.ok
                    /\ split.ret.error = e
                    /\ split.ret.blue = <<>>
                    /\ split.ret.green = <<>>
    IN  (split.called /\ op.kind \in Renames) =>
            /\ (op.kind = "RenameModel" /\ ~ModelDeclared(app, op.new_name))
               => Fails("ModelNotFoundError")
            /\ (op.kind # "RenameModel" /\ ~ModelDeclared(app, op.model_name))
               => Fails("ModelNotFoundError")
            /\ (/\ op.kind = "RenameField"
                /\ ModelDeclared(app, op.model_name)
                /\ \A i \in 1..Len(DeclaredModel(app, op.model_name).fields) :
                      DeclaredModel(app, op.model_name).fields[i].name # op.new_name)
               => Fails("FieldNotFoundError")
            /\ (/\ op.kind = "RenameIndex"
                /\ ModelDeclared(app, op.model_name)
                /\ \A i \in 1..Len(DeclaredModel(app, op.model_name).indexes) :
                      DeclaredModel(app, op.model_name).indexes[i].name # op.new_name)
               => Fails("IndexNotFoundError")

\* the model is there, the index is not
C17_Witness ==
    /\ split.called
    /\ split.operation = RenameIndex("book", "book_title_idx", "book_name_idx")
    /\ migration.app_label = "shop"
    /\ registry["shop"] = <<BookBare>>
    /\ split.ret.error = "IndexNotFoundError"

ImpossibleOf(operations) ==
    {op \in SeqToSet(operations) : op.kind \in IMPOSSIBLE_OPERATIONS}

\* C18: split_operation returns an impossible instruction as it is, alone in
\* the blue tuple, with one None in the green tuple, and does not raise;
\* detect_impossible_operations returns exactly the impossible instructions
\* of its input, in input order.
C18_ImpossiblePassThrough ==
    /\ (split.called /\ split.operation.kind \in IMPOSSIBLE_OPERATIONS) =>
          /\ split.ret.ok
          /\ split.ret.blue = <<split.operation>>
          /\ split.ret.green = <<None>>
    /\ (flat.called /\ flat.method = "detect_impossible_operations") =>
          IsSelection(flat.ret, flat.operations, ImpossibleOf(flat.operations))

C18_Witness ==
    /\ split.called
    /\ split.operation = Alter("AlterField", "book")
    /\ split.ret.blue = <<Alter("AlterField", "book")>>
    /\ flat.called
    /\ flat.method = "detect_impossible_operations"
    /\ flat.operations = <<AddField("book", "title"), Alter("AlterField", "book")>>
    /\ flat.ret = <<Alter("AlterField", "book")>>

\* no strategy handles the instruction and it is not impossible
Unhandled(op) ==
    /\ op.kind \notin IMPOSSIBLE_OPERATIONS
    /\ op.kind \notin Additive \cup Destructive \cup Renames

\* C19: an instruction that is not impossible and that no strategy handles
\* goes whole to blue with nothing for green; a migration of one such
\* instruction gives a blue migration holding it and an empty green one.
C19_UnknownToBlue ==
    /\ (split.called /\ Unhandled(split.operation)) =>
          /\ split.ret.ok
          /\ split.ret.blue = <<split.operation>>
          /\ split.ret.green = <<None>>
    /\ (/\ result.called
        /\ Len(result.migration.operations) = 1
        /\ Unhandled(result.migration.operations[1])) =>
          /\ result.ret.status = "returned"
          /\ result.ret.blue.operations = result.migration.operations
          /\ result.ret.green.operations = <<>>

C19_Witness ==
    /\ split.called
    /\ split.operation = RunPython("noop")
    /\ result.called
    /\ result.migration.operations = <<RunPython("noop")>>
    /\ result.ret.status = "returned"
    /\ result.ret.blue.operations = <<RunPython("noop")>>

\* the elements of the tuples of the first i instructions, None left out
BlueUpTo(operations, app_label, i) ==
    LET F[k \in 0..i] ==
            IF k = 0 THEN <<>>
            ELSE F[k - 1] \o SelectSeq(split_operation(operations[k], app_label, registry).blue,
                                       LAMBDA op : op # None)
    IN  F[i]
GreenUpTo(operations, app_label, i) ==
    LET F[k \in 0..i] ==
            IF k = 0 THEN <<>>
            ELSE F[k - 1] \o SelectSeq(split_operation(operations[k], app_label, registry).green,
                                       LAMBDA op : op # None)
    IN  F[i]

\* C20: split_operations returns two lists without None; the blue list is
\* the blue elements of each instruction's split, None left out, in the
\* order of the instructions, and the green list likewise.
C20_SplitOperationsOrder ==
    (flat.called /\ flat.method = "split_operations" /\ flat.ret.ok) =>
        /\ None \notin SeqToSet(flat.ret.blue)
        /\ None \notin SeqToSet(flat.ret.green)
        /\ flat.ret.blue = BlueUpTo(flat.operations, migration.app_label,
                                    Len(flat.operations))
        /\ flat.ret.green = GreenUpTo(flat.operations, migration.app_label,
                                      Len(flat.operations))

\* two instructions with results in both lists
C20_Witness ==
    /\ flat.called
    /\ flat.method = "split_operations"
    /\ flat.operations = <<RenameField("book", "name", "title"), DeleteModel("Tome")>>
    /\ flat.ret.ok
    /\ Len(flat.ret.blue) = 2
    /\ flat.ret.green = <<RemoveField("book", "name"), DeleteModel("Tome")>>

\* C21: split_operations applied to the blue list followed by the green
\* list it returned for non-impossible instructions returns the same two
\* lists: what was in blue stays in blue, what was in green stays in green.
C21_SplitIdempotent ==
    (/\ flat.called
     /\ flat.method = "split_operations"
     /\ flat.pass = 2
     /\ ImpossibleOf(flat.operations) = {}) =>
        /\ flat.ret.ok
        /\ flat.ret.blue = flat.first.blue
        /\ flat.ret.green = flat.first.green

\* a rename and a delete, split and split again
C21_Witness ==
    /\ flat.called
    /\ flat.method = "split_operations"
    /\ flat.pass = 2
    /\ migration.operations = <<RenameField("book", "name", "title"), DeleteModel("Tome")>>
    /\ Len(flat.operations) = 4
    /\ flat.operations[1].kind = "AddFieldPatched"
    /\ flat.ret.green = <<RemoveField("book", "name"), DeleteModel("Tome")>>

\* C22: _fix_dependencies returns as many entries as it was given, each
\* one from the entry at the same position; an entry whose name ends with
\* _blue or _green, or that is not an (app, name) pair, is returned as it
\* is, whatever the colour, the graph and the disk; a rewritten entry keeps
\* its app label.
C22_DependencyFrame ==
    fixed.called =>
        /\ Len(fixed.ret) = Len(fixed.dependencies)
        /\ \A i \in 1..Len(fixed.dependencies) :
              LET dep == fixed.dependencies[i]
                  suffix == IF fixed.is_green THEN GREEN_SUFFIX ELSE BLUE_SUFFIX
              IN  /\ ~Unsuffixed(dep) => fixed.ret[i] = dep
                  /\ Unsuffixed(dep) =>
                        /\ fixed.ret[i] \in {dep, <<dep[1], dep[2] \o suffix>>}
                        /\ fixed.ret[i][1] = dep[1]

\* a dependency on a blue migration and a swappable one, rewritten for
\* green while the green counterpart is on disk
C22_Witness ==
    /\ fixed.called
    /\ fixed.is_green
    /\ FooGreen \in disk
    /\ fixed.dependencies = << <<"shop", "0005_foo_blue">>,
                               <<"shop", "0005_foo", "swappable">> >>
    /\ fixed.ret = fixed.dependencies

\* C23: both migrations returned by process_migration carry the source's
\* initial, replaces and run_before values, and the source migration is the
\* same after the call as before it.
C23_FlagsCarried ==
    (result.called /\ result.ret.status = "returned") =>
        /\ \A half \in {result.ret.blue, result.ret.green} :
              /\ half.initial = result.migration.initial
              /\ half.replaces = result.migration.replaces
              /\ half.run_before = result.migration.run_before
        /\ migration = result.migration

C23_Witness ==
    /\ result.called /\ result.ret.status = "returned"
    /\ result.migration.initial /\ result.migration.replaces # <<>>
    /\ result.migration.run_before # <<>>

\* C24: the blue migration of PatchedMigrationWriter.split_migrations has
\* exactly the source's dependency list, and the green migration depends on
\* (source app, <source name>_blue) and on nothing else.
C24_WriterDependencies ==
    (pair.called /\ pair.ret.status = "returned") =>
        /\ pair.ret.blue.dependencies = pair.migration.dependencies
        /\ pair.ret.green.dependencies =
               << <<pair.migration.app_label, pair.migration.name \o BLUE_SUFFIX>> >>

C24_Witness ==
    /\ pair.called /\ pair.ret.status = "returned"
    /\ \E i \in 1..Len(pair.migration.dependencies) :
          /\ Unsuffixed(pair.migration.dependencies[i])
          /\ CandidateExists(<<pair.migration.dependencies[i][1],
                                pair.migration.dependencies[i][2] \o BLUE_SUFFIX>>)

ColumnSet(model) == {model.fields[i].column : i \in 1..Len(model.fields)}

C26_SafeIffCommon ==
    (validated.called /\ validated.method = "check_safe_for_insert_select") =>
        /\ validated.ret \in {"", "SchemaValidationError"}
        /\ validated.ret = "SchemaValidationError" <=>
              ColumnSet(validated.model_from) \cap ColumnSet(validated.model_to) = {}

\* a single common column among others is enough
C26_Witness ==
    /\ validated.called /\ validated.method = "check_safe_for_insert_select"
    /\ validated.ret = ""
    /\ Cardinality(ColumnSet(validated.model_from)
                   \cap ColumnSet(validated.model_to)) = 1
    /\ Len(validated.model_from.fields) = 2

\* C27: every column-copy UPDATE the migrate command issues finds both the
\* old and the new column in the table: none is issued after the old
\* column was removed or without the new column.
C27_CopyWithBothColumns ==
    (out.called /\ out.planned) =>
        \A i \in 1..Len(out.issued) :
            out.issued[i].old_exists /\ out.issued[i].new_exists

\* the migrations a migration file depends on, directly or through others
RECURSIVE Ancestors(_, _)
Ancestors(files, key) ==
    IF key \notin {Key(f) : f \in files} THEN {}
    ELSE Parents(files, key)
         \cup UNION {Ancestors(files, d) : d \in Parents(files, key)}

\* a and b were both split and written, b after a's pair existed: b's blue
\* depends on a's blue
SplitInOrder(a, b) ==
    /\ Key(a) \in SeqToSet(b.dependencies)
    /\ {HalfKey(a, BLUE_SUFFIX), HalfKey(a, GREEN_SUFFIX),
        HalfKey(b, BLUE_SUFFIX), HalfKey(b, GREEN_SUFFIX)}
           \subseteq {Key(f) : f \in disk}
    /\ HalfKey(a, BLUE_SUFFIX) \in Parents(disk, HalfKey(b, BLUE_SUFFIX))

\* C28: when source migration b depends on source migration a and both were
\* split by process_migration, a's pair existing when b was processed, then
\* a_blue and a_green are both ancestors of b_green and b's app has a
\* single leaf.
C28_GreenAfterDependencyGreen ==
    \A a \in SourceMigrations, b \in SourceMigrations :
        SplitInOrder(a, b) =>
            /\ HalfKey(a, BLUE_SUFFIX) \in Ancestors(disk, HalfKey(b, GREEN_SUFFIX))
            /\ HalfKey(a, GREEN_SUFFIX) \in Ancestors(disk, HalfKey(b, GREEN_SUFFIX))
            /\ b.app_label \notin detect_conflicts(disk, registry)

\* C29: for a migration without impossible instructions, split_migrations
\* and process_migration return blue and green migrations with the same
\* names, operations, flags and dependencies, whatever the loaded graph and
\* the files on disk.
C29_PathsAgree ==
    (/\ result.called /\ pair.called /\ result.migration = pair.migration
     /\ ~pair.impossible /\ ~HasImpossible(pair.migration.operations)) =>
        /\ result.ret.status = pair.ret.status
        /\ result.ret.blue = pair.ret.blue
        /\ result.ret.green = pair.ret.green

\* C30: after an invocation of the bluegreen command that wrote several
\* migrations, every dependency of every written migration names a
\* migration that was on disk before or was written by the invocation;
\* none names the un-suffixed migration that was split.
C30_WrittenDependenciesExist ==
    (command.called /\ command.ret.status = "ok" /\ ~command.dry_run) =>
        \A i \in 1..Len(command.ret.written) :
            \A d \in SeqToSet(command.ret.written[i].dependencies) :
                /\ d \in {Key(f) : f \in command.before}
                          \cup {Key(command.ret.written[j]) :
                                   j \in 1..Len(command.ret.written)}
                /\ d \notin {Key(command.changes[j]) : j \in 1..Len(command.changes)}

====
